---- MODULE Spec2Model ----
(***************************************************************************)
(* Model of the export pipeline and of the instruction-level importer of   *)
(* diaphora_ida.py (class CIDABinDiff, _diff_or_export, main).              *)
(*                                                                         *)
(* Spec        : the resumable export pipeline (_diff_or_export / main ->  *)
(*               export -> do_export -> read_function / save_function).    *)
(* SpecImport  : import_instruction acting on the primary IDA database.    *)
(***************************************************************************)
EXTENDS Integers, Sequences, FiniteSets, TLC

(***************************************************************************)
(* Bounds of the model and constants of the program.                       *)
(***************************************************************************)
\* number of functions of a small program (no periodic commit happens)
SmallTotal == 2
\* number of functions of a large program (periodic commits happen)
LargeTotal == 5001
\* do_export: "if total_funcs > 5000 and i % (total_funcs/10) == 0"
CommitThreshold == 5000
CommitParts == 10

\* Python's None; a value v that is not None is <<v>>
None == <<>>
Some(v) == <<v>>

\* image bases of the loaded program (idaapi.get_imagebase())
ImageBases == {0, 4194304}

\* jkutils.factor.primesbelow: the ascending prime table, index 0 first
Primes == <<2, 3, 5, 7, 11>>

(***************************************************************************)
(* The host's facts about one function, as far as read_function consults   *)
(* them.  A kind names one combination.                                    *)
(*   lib         GetFunctionFlags has FUNC_LIB / FUNC_THUNK                *)
(*   decode_ok   decode_insn succeeds on every instruction                 *)
(*   bytes_ok    GetManyBytes returns the bytes of every instruction       *)
(*   succ_bad    a successor block has endEA = BADADDR                     *)
(*   entry_heads the entry block has at least one instruction              *)
(*   scc_ok      strongly_connected_components / robust_topological_sort   *)
(*               return normally                                           *)
(*   cc          edges - nodes + 2 of the function                         *)
(*   before      what hooks.before_export_function returns for it; "True"  *)
(*               also when self.hooks is None, the test being passed       *)
(*               either way                                                *)
(*   after       what hooks.after_export_function does with its record:    *)
(*               "same" returns it as given, "edit" returns it with        *)
(*               another prime, "nohook" when self.hooks is None           *)
(***************************************************************************)
Kinds == {"ok", "lib", "decodefail", "unreadable", "badsucc", "noasm", "sccfail"}
LargeKinds == {"ok", "lib"}
\* the kinds of a program exported under a project script with hooks
HookKinds == {"hooked", "vetoed", "vetonone", "edited", "lib"}

Desc(kind) ==
  [lib         |-> kind = "lib",
   decode_ok   |-> kind # "decodefail",
   bytes_ok    |-> kind # "unreadable",
   succ_bad    |-> kind = "badsucc",
   entry_heads |-> kind # "noasm",
   scc_ok      |-> kind # "sccfail",
   cc          |-> IF kind = "sccfail" THEN 2 ELSE 1,
   before      |-> IF kind = "vetoed" THEN "False"
                   ELSE IF kind = "vetonone" THEN "None" ELSE "True",
   after       |-> IF kind = "edited" THEN "edit"
                   ELSE IF kind = "hooked" THEN "same" ELSE "nohook"]

\* The positions of the function list whose kind is an input; every other
\* function of a large program is a library function.
CandPos(total) ==
  IF total > CommitThreshold
    THEN LET q == total \div CommitParts IN {q - 1, q, q + 1}
    ELSE 1..total

\* Large programs of the model: three exportable functions around the first
\* periodic commit, the one at the commit index exportable or not.
LargeProgram(total) ==
  LET q == total \div CommitParts IN
    {[p \in CandPos(total) |-> IF p = q THEN k ELSE "ok"] : k \in LargeKinds}

VARIABLES
  \* ---- the program loaded in the host (fixed during a behaviour)
  total_funcs,      \* len(list(Functions()))
  kinds,            \* position of the function list -> kind
  image_base,       \* idaapi.get_imagebase()
  \* ---- the file system
  db_exists,        \* os.path.exists(file_out)
  crash_file,       \* os.path.exists(file_out + "-crash")
  functions,        \* committed rows of the functions table, by id
  program,          \* committed rows of the program table (distinct rows)
  meta,             \* committed: structures / til / indexes / analyze
  \* ---- the running process
  pc,               \* position in _diff_or_export / main / export / do_export
  opts,             \* entry point, DIAPHORA_PROFILE, file_out, file_in
  crashed_before,   \* the local of export() / do_export()
  start_func,       \* do_export: get_last_crash_func()
  i,                \* do_export: loop counter
  tx_functions,     \* rows inserted since the last commit
  tx_program,
  tx_meta,
  callgraph_primes,
  callgraph_all_primes,
  exported,         \* _diff_or_export: exported
  \* ---- history of the behaviour (observes, never steers)
  run,              \* facts about the export run in progress / last finished
  last_end,         \* how the last invocation that exported ended
  diffed,           \* what the last diff of an invocation was run against
  last_call         \* while the warning of a refused call is shown: the
                    \* state the call was made in

\* ---- the primary IDA database around one matched instruction (ea1), and
\* the CIDABinDiff object that imports into it
VARIABLES
  comments,         \* rptble (0 / 1) -> get_cmt(ea1, rptble)
  user_cmts,        \* itp -> pseudocode comment at treeloc (ea1, itp)
  true_names,       \* address -> GetTrueName(address)
  types,            \* address -> GetType(address)
  xrefs,            \* references leaving ea1 and its data target (fixed)
  names,            \* keys of self.names, taken once by __init__
  imported          \* history: the database before the last import_instruction
                    \* call, and what the call was given

idb == <<comments, user_cmts, true_names, types, xrefs, names, imported>>

\* ---- functions checked on their own: what they are given, what they did
VARIABLES
  level_in,         \* import_instruction_level: the two databases' rows for a
                    \* matched function pair and the line alignment
  level_out,        \* what import_instruction_level did with them
  read_in,          \* read_function: the flow chart of the function f, and
                    \* where its SCC step fails, if it does
  read_out,         \* what read_function made of it
  fn_in,            \* the arguments of one of the other functions checked on
                    \* their own (fn names it)
  fn_out            \* what it returned

alone == <<level_in, level_out, read_in, read_out, fn_in, fn_out>>

vars == <<total_funcs, kinds, image_base, db_exists, crash_file, functions,
          program, meta, pc, opts, crashed_before, start_func, i,
          tx_functions, tx_program, tx_meta, callgraph_primes,
          callgraph_all_primes, exported, run, last_end, diffed, last_call,
          idb, alone>>

\* what the export reads and never writes
host == <<total_funcs, kinds, image_base, idb, alone>>
disk == <<db_exists, crash_file, functions, program, meta>>
locals == <<crashed_before, start_func, i, callgraph_primes, callgraph_all_primes>>
tx == <<tx_functions, tx_program, tx_meta>>

(***************************************************************************)
(* Pure helpers.                                                           *)
(***************************************************************************)
Range(s) == {s[k] : k \in DOMAIN s}

\* the function list of do_export: list(Functions(min_ea, max_ea)), ascending
FuncEA(pos) == image_base + pos

KindAt(pos) == IF pos \in DOMAIN kinds THEN kinds[pos] ELSE "lib"

get_base_address == image_base

\* self.primes[cc], str(...) of it, or 0 when the index is out of the table;
\* a negative index counts from the end of the table
PrimeOfCC(cc) ==
  IF cc >= 0 /\ cc < Len(Primes) THEN Primes[cc + 1]
  ELSE IF cc < 0 /\ cc >= -Len(Primes) THEN Primes[Len(Primes) + cc + 1]
  ELSE 0

\* create_function_dictionary: the props tuple as a dictionary, one key for
\* each position (l[11] is "prime", l[12] is "f", l[27] is "rva"; degraded
\* stands for the other positions)
create_function_dictionary(l) ==
  [prime |-> l.prime, f |-> l.f, rva |-> l.rva, degraded |-> l.degraded]

\* hooks.after_export_function of the project script: returns the dictionary
\* it was given, as it is or with another value under "prime"
after_export_function(how, d) ==
  IF how = "edit" THEN [d EXCEPT !.prime = Primes[Len(Primes)]] ELSE d

\* get_function_from_dictionary: the tuple again, each key at its position
get_function_from_dictionary(d) ==
  [tag |-> "props", exc |-> None, f |-> d.f, rva |-> d.rva,
   prime |-> d.prime, degraded |-> d.degraded, hooked |-> TRUE]

\* read_function: returns the props tuple, what the before hook returned when
\* that is false (tag "false" for False, "none" for None), False, or raises.
\* hooked: the tuple went through after_export_function.
read_function(f) ==
  LET d == Desc(KindAt(f - image_base))
      none == [tag |-> "false", exc |-> None, f |-> 0, rva |-> 0, prime |-> 0,
               degraded |-> FALSE, hooked |-> FALSE]
      l == [tag |-> "props", exc |-> None, f |-> f,
            rva |-> f - get_base_address, prime |-> PrimeOfCC(d.cc),
            degraded |-> ~d.decode_ok \/ ~d.bytes_ok \/ ~d.scc_ok,
            hooked |-> FALSE]
  IN  IF d.before = "False"
        THEN none
      ELSE IF d.before = "None"
        THEN [none EXCEPT !.tag = "none"]
      ELSE IF d.lib
        THEN none
      ELSE IF d.succ_bad
        THEN [none EXCEPT !.tag = "raise", !.exc = "KeyError"]
      ELSE IF ~d.entry_heads
        THEN [none EXCEPT !.tag = "raise", !.exc = "ValueError"]
      ELSE IF d.after # "nohook"
        THEN get_function_from_dictionary(
               after_export_function(d.after, create_function_dictionary(l)))
      ELSE l

\* save_function: one row of the functions table from a props tuple; the
\* columns follow the positions of the tuple (props[11] is primes_value,
\* props[12] is address, props[27] is rva).
save_function(props) ==
  [address |-> props.f, rva |-> props.rva, primes_value |-> props.prime]

\* what the connection of the running process sees
ViewFunctions == functions \o tx_functions

\* a different get_last_crash_func: address 0 for an empty table
get_last_crash_func_or_zero ==
  IF Len(ViewFunctions) = 0 THEN Some(0)
  ELSE Some(ViewFunctions[Len(ViewFunctions)].address)

\* get_last_crash_func: "select address from functions order by id desc limit 1"
get_last_crash_func ==
  IF Len(ViewFunctions) = 0 THEN None
  ELSE Some(ViewFunctions[Len(ViewFunctions)].address)

AddPrime(h, p) == IF p \in DOMAIN h THEN [h EXCEPT ![p] = @ + 1] ELSE h @@ (p :> 1)

RECURSIVE PrimesProduct(_, _)
PrimesProduct(rows, n) ==
  IF n = 0 THEN 1 ELSE rows[n].primes_value * PrimesProduct(rows, n - 1)

RECURSIVE PrimesHistogram(_, _)
PrimesHistogram(rows, n) ==
  IF n = 0 THEN <<>> ELSE AddPrime(PrimesHistogram(rows, n - 1), rows[n].primes_value)

\* a different recalculate_primes: the aggregates of an empty table
recalculate_nothing == [primes |-> 1, all_primes |-> <<>>]

\* recalculate_primes: product and histogram of the rows of the table
recalculate_primes ==
  [primes |-> PrimesProduct(ViewFunctions, Len(ViewFunctions)),
   all_primes |-> PrimesHistogram(ViewFunctions, Len(ViewFunctions))]

\* do_export: the periodic commit of the loop
PeriodicCommit(total, idx) ==
  total > CommitThreshold /\ idx % (total \div CommitParts) = 0


(***************************************************************************)
(* Values of the history variables and of the idle process.                *)
(***************************************************************************)
\* file names, as the sequences of their characters
EmptyName == <<>>
ShortName == <<"a", ".", "d", "b">>
OutName == <<"o", "u", "t", ".", "d", "b">>
InName == <<"i", "n", ".", "d", "b">>
IdbName == <<"p", ".", "i", "d", "b">>
I64Name == <<"P", ".", "I", "6", "4">>

\* what the caller or the dialog can put in opts.file_out and opts.file_in:
\* an export alone, an export and a diff, and one pair for each test of the
\* validation
FileChoices == {<<OutName, EmptyName>>, <<OutName, InName>>,
                <<OutName, OutName>>, <<EmptyName, InName>>,
                <<ShortName, EmptyName>>, <<OutName, I64Name>>,
                <<IdbName, EmptyName>>, <<I64Name, InName>>}

NoOpts == [entry |-> "none", profile |-> FALSE, file_out |-> EmptyName,
           file_in |-> EmptyName]

NoCall == None

\* answer   : what brought the invocation to export (fresh, resume, decline,
\*            overwrite, keep, auto)
\* resume   : do_export was entered with crashed_before = True
\* prior    : rows of the functions table when do_export was entered
\* first_read : read_function was called on the first function of the list
\* saved    : RVAs passed to save_function by this run, in order
\* sentinel : "no", "made" (by export()), "removed" (by export())
\* vetoed   : RVAs for which before_export_function returned a false value
\* after    : the tuples that went through after_export_function, in order
\* raised_at : the RVA at which an exception left the loop, if one did
\* committed_at : the loop index of the last commit of do_export, 0 for the
\*            commit before the loop
NoRun == [answer |-> "none", resume |-> FALSE, prior |-> <<>>,
          first_read |-> FALSE, saved |-> <<>>, sentinel |-> "no",
          vetoed |-> {}, after |-> <<>>, raised_at |-> None,
          committed_at |-> 0]

NoDiff == [ran |-> FALSE, complete |-> FALSE]

ExportPcs == {"export", "do_export", "loop", "save_callgraph",
              "export_structures", "export_til", "create_indexes", "commit",
              "remove_crash", "analyze", "db_close"}

\* a different export(): the sentinel is removed before the final commit
StepOrderRemoveEarly == <<"save_callgraph", "export_structures", "export_til",
                          "create_indexes", "remove_crash", "commit",
                          "analyze", "db_close", "after_export">>

\* the statements of do_export after the loop and of export() after do_export,
\* in program order
StepOrder == <<"save_callgraph", "export_structures", "export_til",
               "create_indexes", "commit", "remove_crash", "analyze",
               "db_close", "after_export">>

NextPc(p) ==
  LET k == CHOOSE n \in DOMAIN StepOrder : StepOrder[n] = p IN StepOrder[k + 1]

\* the rows an uninterrupted export of the function list saves
ExportablePos ==
  {p \in DOMAIN kinds : read_function(FuncEA(p)).tag = "props"}
FullRows == {save_function(read_function(FuncEA(p))) : p \in ExportablePos}
SomeRaises ==
  \E p \in DOMAIN kinds : read_function(FuncEA(p)).tag = "raise"

\* the database as the connection of the running process sees it
DbComplete ==
  /\ Range(ViewFunctions) = FullRows
  /\ Len(ViewFunctions) = Cardinality(FullRows)
  /\ (program \cup tx_program) # {}
  /\ {"structures", "til", "indexes"} \subseteq (meta \cup tx_meta)

\* a different remove_file: a file that cannot be removed is left as it is
remove_file_or_leave(can_delete) ==
  [exists |-> ~can_delete,
   functions |-> IF can_delete THEN <<>> ELSE functions,
   program |-> IF can_delete THEN {} ELSE program,
   meta |-> IF can_delete THEN {} ELSE meta]

\* remove_file: os.remove, or "drop table if exists" for the listed tables
\* when the file cannot be removed
remove_file(can_delete) ==
  [exists |-> ~can_delete, functions |-> <<>>, program |-> {},
   meta |-> IF can_delete THEN {} ELSE meta \cap {"analyze"}]

\* a different export(): no sentinel is written
CrashFileNotCreated(existed) == existed

\* a different export(): the sentinel is not looked at
SentinelIgnored(existed) == FALSE

\* open(crash_file, "wb"): the file exists afterwards
CreateCrashFile(existed) == TRUE

\* export(): crashed_before = os.path.exists(crash_file)
SentinelMeansCrashed(existed) == existed

(***************************************************************************)
(* The primary IDA database around one matched instruction, as             *)
(* import_instruction reads and writes it.                                 *)
(***************************************************************************)
\* item tree positions (treeloc_t.itp) a pseudocode comment is attached to
Itps == {1, 2}

\* ea1 (the matched instruction), the instruction after it, the data item
\* ea1 refers to, the object an offset stored in that item points to, and
\* the function ea1 calls
Addrs == {"ea1", "next", "global", "object", "callee"}

\* the placeholder the host shows for an address nobody named
DummyName(a) ==
  CASE a = "ea1" -> "loc_ea1"
    [] a = "next" -> "loc_next"
    [] a = "global" -> "off_global"
    [] a = "object" -> "unk_object"
    [] a = "callee" -> "sub_callee"

\* the name an analyst gives to an address
UserName(a) ==
  CASE a = "ea1" -> "my_ea1"
    [] a = "next" -> "my_next"
    [] a = "global" -> "my_global"
    [] a = "object" -> "my_object"
    [] a = "callee" -> "my_callee"

is_auto_generated(name) == name \in {DummyName(a) : a \in Addrs}

\* [data_refs: DataRefsFrom(ea1), fcode_refs: CodeRefsFrom(ea1, 0),
\*  code_refs: CodeRefsFrom(ea1, 1), is_off: is_off(flags of the data item),
\*  off_refs: DataRefsFrom(the data item)]
XrefsOf(d, fc, flow, off, tgt) ==
  [data_refs |-> d, fcode_refs |-> fc,
   code_refs |-> (IF flow THEN <<"next">> ELSE <<>>) \o fc,
   is_off |-> off, off_refs |-> tgt]

XrefsConfigs ==
  {XrefsOf(<<>>, <<>>, FALSE, FALSE, <<>>),
   XrefsOf(<<>>, <<>>, TRUE, FALSE, <<>>),
   XrefsOf(<<>>, <<"callee">>, FALSE, FALSE, <<>>)}
  \cup {XrefsOf(<<"global">>, <<>>, TRUE, FALSE, <<>>),
        XrefsOf(<<"global">>, <<>>, TRUE, TRUE, <<>>),
        XrefsOf(<<"global">>, <<>>, TRUE, TRUE, <<"object">>)}

\* the addresses import_instruction can look at under a configuration
Referenced(x) ==
  IF x.data_refs # <<>>
    THEN Range(x.data_refs) \cup Range(x.off_refs)
    ELSE IF x.fcode_refs # <<>> THEN Range(x.fcode_refs)
    ELSE Range(x.code_refs)

\* what the secondary database carries for the matched instruction
\* (ins_data2 without ea2 and the disassembly, which are not read): rows
\* that carry comments only, a name and/or a type only, a pseudocode
\* comment only, or every field
InsData2 ==
  {d \in [cmt1 : {None, Some("sec_cmt")}, cmt2 : {None, Some("sec_rcmt")},
          name : {None, Some("sec_name")}, mtype : {None, Some("sec_type")},
          mcmt : {None, Some("sec_pcmt")}, mitp : Itps] :
     LET cmts == d.cmt1 # None \/ d.cmt2 # None
         ref == d.name # None \/ d.mtype # None
         pcmt == d.mcmt # None
         full == /\ d.cmt1 # None /\ d.cmt2 # None /\ d.name # None
                 /\ d.mtype # None /\ d.mcmt # None
     IN  /\ pcmt \/ d.mitp = 1
         /\ \/ full
            \/ ~(cmts /\ ref) /\ ~(cmts /\ pcmt) /\ ~(ref /\ pcmt)}

\* MakeName (set_name): a NULL name changes nothing
MakeName(tn, ea, name) ==
  IF name = None THEN tn ELSE [tn EXCEPT ![ea] = name[1]]

SetType(ty, ea, mtype) == [ty EXCEPT ![ea] = mtype]

\* curr_name != name, a string against a string or None
NameDiffers(curr_name, name) == name = None \/ name[1] # curr_name

\* a different import_instruction: a comment that exists is removed when the
\* secondary row carries one
ImportCmtToggle(old, cmt) ==
  IF cmt = None THEN old ELSE IF old = None THEN cmt ELSE None

\* "if cmt is not None and get_cmt(ea1, n) is None: set_cmt(ea1, cmt, n)"
ImportCmt(old, cmt) == IF cmt # None /\ old = None THEN cmt ELSE old

\* import_instruction: the database after the call.  cfunc tells whether
\* decompile(ea1) returned a function.
import_instruction(ins_data2, cfunc) ==
  LET cmt1 == ins_data2.cmt1
      cmt2 == ins_data2.cmt2
      name == ins_data2.name
      mtype == ins_data2.mtype
      mcmt == ins_data2.mcmt
      mitp == ins_data2.mitp
      cmts == [r \in {0, 1} |->
                 IF r = 0 THEN ImportCmt(comments[0], cmt1)
                          ELSE ImportCmt(comments[1], cmt2)]
      ucmts == IF mcmt # None /\ cfunc
                 THEN [user_cmts EXCEPT ![mitp] = mcmt]
                 ELSE user_cmts
      data_refs == xrefs.data_refs
      code_refs == IF Len(xrefs.fcode_refs) = 0
                     THEN xrefs.code_refs ELSE xrefs.fcode_refs
      ren ==
        IF Len(data_refs) > 0
          THEN IF data_refs[1] \in names
                 THEN [tmp_ea |-> Some(data_refs[1]), set_type |-> FALSE,
                       make |-> /\ NameDiffers(true_names[data_refs[1]], name)
                                /\ is_auto_generated(true_names[data_refs[1]])]
                 ELSE [tmp_ea |-> IF xrefs.is_off /\ xrefs.off_refs # <<>>
                                    THEN Some(xrefs.off_refs[1])
                                    ELSE Some(data_refs[1]),
                       set_type |-> TRUE, make |-> TRUE]
          ELSE IF /\ Len(code_refs) > 0
                  /\ NameDiffers(true_names[code_refs[1]], name)
                  /\ is_auto_generated(true_names[code_refs[1]])
                 THEN [tmp_ea |-> Some(code_refs[1]), set_type |-> TRUE,
                       make |-> TRUE]
                 ELSE [tmp_ea |-> None, set_type |-> FALSE, make |-> FALSE]
      tn == IF ren.make
              THEN MakeName(true_names, ren.tmp_ea[1], name)
              ELSE true_names
      ty == IF /\ ren.tmp_ea # None
               /\ ren.set_type
               /\ mtype # None
               /\ types[ren.tmp_ea[1]] # mtype
              THEN SetType(types, ren.tmp_ea[1], mtype)
              ELSE types
  IN  [comments |-> cmts, user_cmts |-> ucmts, true_names |-> tn,
       types |-> ty]

NotImported == [done |-> FALSE]

\* nothing was given to the functions checked on their own
NotCalled == [done |-> FALSE]
LevelQuiet ==
  /\ level_in = NotCalled
  /\ level_out = NotCalled

ReadQuiet ==
  /\ read_in = NotCalled
  /\ read_out = NotCalled

FnQuiet ==
  /\ fn_in = NotCalled
  /\ fn_out = NotCalled

AloneQuiet ==
  /\ LevelQuiet
  /\ ReadQuiet
  /\ FnQuiet

\* the database of a behaviour that only exports
IdbQuiet ==
  /\ comments = [r \in {0, 1} |-> None]
  /\ user_cmts = [p \in Itps |-> None]
  /\ true_names = [a \in Addrs |-> DummyName(a)]
  /\ types = [a \in Addrs |-> None]
  /\ xrefs = XrefsOf(<<>>, <<>>, FALSE, FALSE, <<>>)
  /\ names = {}
  /\ imported = NotImported

(***************************************************************************)
(* Initial state: a program is loaded, nothing was exported yet.           *)
(***************************************************************************)
Init ==
  /\ total_funcs \in {SmallTotal, LargeTotal}
  /\ kinds \in IF total_funcs > CommitThreshold
                  THEN LargeProgram(total_funcs)
                  ELSE [CandPos(total_funcs) -> Kinds]
  /\ image_base \in ImageBases
  /\ db_exists = FALSE
  /\ crash_file = FALSE
  /\ functions = <<>>
  /\ program = {}
  /\ meta = {}
  /\ pc = "idle"
  /\ opts = NoOpts
  /\ crashed_before = FALSE
  /\ start_func = None
  /\ i = 0
  /\ tx_functions = <<>>
  /\ tx_program = {}
  /\ tx_meta = {}
  /\ callgraph_primes = 1
  /\ callgraph_all_primes = <<>>
  /\ exported = FALSE
  /\ run = NoRun
  /\ last_end = "none"
  /\ diffed = NoDiff
  /\ last_call = NoCall
  /\ IdbQuiet
  /\ AloneQuiet

\* the process is gone or the call returned: locals and the open transaction
\* are lost
Exit(ending) ==
  /\ pc' = "idle"
  /\ opts' = NoOpts
  /\ crashed_before' = FALSE
  /\ start_func' = None
  /\ i' = 0
  /\ tx_functions' = <<>>
  /\ tx_program' = {}
  /\ tx_meta' = {}
  /\ callgraph_primes' = 1
  /\ callgraph_all_primes' = <<>>
  /\ exported' = FALSE
  /\ last_end' = ending

\* str.lower() and str.endswith() on the characters of a name
UpperCase == <<"A", "B", "C", "D", "E", "F", "G", "H", "I", "J", "K", "L", "M",
               "N", "O", "P", "Q", "R", "S", "T", "U", "V", "W", "X", "Y", "Z">>
LowerCase == <<"a", "b", "c", "d", "e", "f", "g", "h", "i", "j", "k", "l", "m",
               "n", "o", "p", "q", "r", "s", "t", "u", "v", "w", "x", "y", "z">>

ToLower ==
  [c \in {UpperCase[u] : u \in DOMAIN UpperCase} |->
     LowerCase[CHOOSE u \in DOMAIN UpperCase : UpperCase[u] = c]]

lower(filename) ==
  IF filename = <<>> THEN <<>>
  ELSE [k \in DOMAIN filename |->
          IF filename[k] \in DOMAIN ToLower THEN ToLower[filename[k]]
          ELSE filename[k]]

endswith(filename, suffix) ==
  /\ Len(filename) >= Len(suffix)
  /\ SubSeq(filename, Len(filename) - Len(suffix) + 1, Len(filename)) = suffix

IdaSuffixes == {<<".", "i", "d", "b">>, <<".", "i", "6", "4">>,
                <<".", "t", "i", "l">>, <<".", "i", "d", "0">>,
                <<".", "i", "d", "1">>, <<".", "n", "a", "m">>}

\* is_ida_file without the lowering of the name
is_ida_file_as_written(filename) ==
  \E suffix \in IdaSuffixes : endswith(filename, suffix)

is_ida_file(filename) ==
  LET lowered == lower(filename)
  IN  \E suffix \in IdaSuffixes : endswith(lowered, suffix)

\* the validation of opts.file_out / opts.file_in in _diff_or_export, for
\* every pair of names that can be given
Refused ==
  [files \in FileChoices |->
     LET file_out == files[1]
         file_in == files[2]
     IN  \/ file_out = file_in
         \/ file_out = EmptyName \/ Len(file_out) < 5
         \/ is_ida_file(file_in) \/ is_ida_file(file_out)]

\* what a call of _diff_or_export can change on the disk or start
CallState == <<disk, exported, run, last_end, diffed>>

(***************************************************************************)
(* _diff_or_export, from its entry to the construction of CIDABinDiff.     *)
(* resume_ans / overwrite_ans are the answers of askyn_c (-1 cancel, 0 no, *)
(* 1 yes); an answer is read only when its question is asked.              *)
(***************************************************************************)
\* a different _diff_or_export: the output is removed whenever it is exported
\* to
RemovesOutputOnExport(exists, export, resume_crashed) == exists /\ export

\* _diff_or_export: "if export: if not resume_crashed: remove_file(...)", under
\* "if os.path.exists(opts.file_out)"
RemovesOutput(exists, export, resume_crashed) ==
  exists /\ export /\ ~resume_crashed

DiffOrExportStart(profile, file_out, file_in, resume_ans, overwrite_ans, can_delete) ==
  /\ pc = "idle"
  /\ LET rejected == Refused[<<file_out, file_in>>]
         asked_resume == db_exists /\ crash_file
         asked_overwrite == db_exists /\ ~crash_file
         cancelled == \/ asked_resume /\ resume_ans = -1
                      \/ asked_overwrite /\ overwrite_ans = -1
         resume_crashed == asked_resume /\ resume_ans = 1
         export == ~(asked_overwrite /\ overwrite_ans = 0)
         remove == RemovesOutput(db_exists, export, resume_crashed)
         removed == remove_file(can_delete)
         answer == IF ~db_exists THEN "fresh"
                   ELSE IF resume_crashed THEN "resume"
                   ELSE IF crash_file THEN "decline"
                   ELSE IF export THEN "overwrite" ELSE "keep"
         called == [entry |-> "doe", profile |-> profile,
                    file_out |-> file_out, file_in |-> file_in]
     IN  IF rejected
           THEN \* Warning(...): nothing but the names was read
                /\ ~profile /\ resume_ans = 0 /\ overwrite_ans = 0
                /\ ~can_delete
                /\ pc' = "warning"
                /\ opts' = called
                /\ last_call' = Some(CallState)
                /\ UNCHANGED <<host, disk, locals, tx, exported, run,
                               last_end, diffed>>
         ELSE IF cancelled
           THEN UNCHANGED vars
           ELSE /\ db_exists' = TRUE
                /\ functions' = IF remove THEN removed.functions ELSE functions
                /\ program' = IF remove THEN removed.program ELSE program
                /\ meta' = IF remove THEN removed.meta ELSE meta
                /\ crash_file' = IF remove THEN FALSE ELSE crash_file
                /\ opts' = called
                /\ pc' = IF export THEN "export" ELSE "after_export"
                /\ run' = [NoRun EXCEPT !.answer = answer]
                /\ diffed' = NoDiff
                /\ last_end' = IF export THEN "running" ELSE last_end
                /\ UNCHANGED <<host, last_call, locals, tx, exported>>

\* the warning of a refused call is closed: _diff_or_export returns
WarningClosed ==
  /\ pc = "warning"
  /\ pc' = "idle"
  /\ opts' = NoOpts
  /\ last_call' = NoCall
  /\ UNCHANGED <<host, disk, locals, tx, exported, run, last_end, diffed>>

(***************************************************************************)
(* main() with DIAPHORA_AUTO set, up to the call of bd.export().           *)
(***************************************************************************)
MainAuto(can_delete) ==
  /\ pc = "idle"
  /\ LET removed == remove_file(can_delete) IN
       /\ db_exists' = TRUE
       /\ functions' = IF db_exists THEN removed.functions ELSE functions
       /\ program' = IF db_exists THEN removed.program ELSE program
       /\ meta' = IF db_exists THEN removed.meta ELSE meta
  /\ opts' = [entry |-> "main", profile |-> FALSE, file_out |-> OutName,
              file_in |-> EmptyName]
  /\ pc' = "export"
  /\ run' = [NoRun EXCEPT !.answer = "auto"]
  /\ diffed' = NoDiff
  /\ last_end' = "running"
  /\ UNCHANGED <<host, last_call, crash_file, locals, tx, exported>>

(***************************************************************************)
(* export(): the sentinel is looked up, then (re)created.                  *)
(***************************************************************************)
ExportBegin ==
  /\ pc = "export"
  /\ crashed_before' = SentinelMeansCrashed(crash_file)
  /\ crash_file' = CreateCrashFile(crash_file)
  /\ pc' = "do_export"
  /\ run' = [run EXCEPT !.sentinel = "made"]
  /\ UNCHANGED <<host, last_call, db_exists, functions, program, meta, opts, start_func,
                 i, tx, callgraph_primes, callgraph_all_primes, exported,
                 last_end, diffed>>

(***************************************************************************)
(* do_export, before the loop: the resume point, the first commit.         *)
(***************************************************************************)
DoExportInit ==
  /\ pc = "do_export"
  /\ LET last == get_last_crash_func
         resume == crashed_before /\ last # None
         rec == recalculate_primes
     IN  /\ start_func' = IF resume THEN last ELSE None
         /\ crashed_before' = resume
         /\ callgraph_primes' = IF resume THEN rec.primes ELSE 1
         /\ callgraph_all_primes' = IF resume THEN rec.all_primes ELSE <<>>
  /\ functions' = ViewFunctions
  /\ program' = program \cup tx_program
  /\ meta' = meta \cup tx_meta
  /\ tx_functions' = <<>>
  /\ tx_program' = {}
  /\ tx_meta' = {}
  /\ i' = 0
  /\ pc' = "loop"
  /\ run' = [run EXCEPT !.resume = crashed_before, !.prior = ViewFunctions]
  /\ UNCHANGED <<host, last_call, db_exists, crash_file, opts, exported, last_end, diffed>>


(***************************************************************************)
(* do_export: one iteration of "for func in func_list".                    *)
(***************************************************************************)
LoopExit(n) == IF n = total_funcs THEN "save_callgraph" ELSE "loop"

ExportFunction ==
  /\ pc = "loop"
  /\ i < total_funcs
  /\ LET n == i + 1
         func == FuncEA(n)
         rva == func - get_base_address
         props == read_function(func)
         vetoed == Desc(KindAt(n)).before # "True"
     IN
       IF crashed_before
         THEN \* still looking for the last function of the crashed session
              /\ crashed_before' = (Some(rva) # start_func)
              /\ i' = n
              /\ pc' = LoopExit(n)
              /\ UNCHANGED <<host, last_call, disk, opts, start_func, tx, callgraph_primes,
                             callgraph_all_primes, exported, run, last_end,
                             diffed>>
       ELSE IF props.tag = "raise" \/ props.tag = "none"
         THEN \* read_function raised, or returned None: "props == False" is
              \* false for it and props[11] raises TypeError.  The exception
              \* leaves do_export, export and reaches the caller: the bare
              \* except of _diff_or_export, or nothing in main
              /\ Exit("error")
              /\ run' = [run EXCEPT !.first_read = @ \/ n = 1,
                                    !.vetoed = IF vetoed THEN @ \cup {rva} ELSE @,
                                    !.raised_at = Some(rva)]
              /\ UNCHANGED <<host, last_call, disk, diffed>>
       ELSE IF props.tag = "false"
         THEN /\ i' = n
              /\ pc' = LoopExit(n)
              /\ run' = [run EXCEPT !.first_read = @ \/ n = 1,
                                    !.vetoed = IF vetoed THEN @ \cup {rva} ELSE @]
              /\ UNCHANGED <<host, last_call, disk, opts, crashed_before, start_func, tx,
                             callgraph_primes, callgraph_all_primes, exported,
                             last_end, diffed>>
       ELSE /\ i' = n
            /\ pc' = LoopExit(n)
            /\ callgraph_primes' = callgraph_primes * props.prime
            /\ callgraph_all_primes' = AddPrime(callgraph_all_primes, props.prime)
            /\ IF PeriodicCommit(total_funcs, n)
                 THEN /\ functions' = Append(ViewFunctions, save_function(props))
                      /\ program' = program \cup tx_program
                      /\ meta' = meta \cup tx_meta
                      /\ tx_functions' = <<>>
                      /\ tx_program' = {}
                      /\ tx_meta' = {}
                 ELSE /\ tx_functions' = Append(tx_functions, save_function(props))
                      /\ UNCHANGED <<functions, program, meta, tx_program, tx_meta>>
            /\ run' = [run EXCEPT !.first_read = @ \/ n = 1,
                                  !.saved = Append(@, props.rva),
                                  !.after = IF props.hooked
                                              THEN Append(@, props) ELSE @,
                                  !.committed_at =
                                    IF PeriodicCommit(total_funcs, n)
                                      THEN n ELSE @]
            /\ UNCHANGED <<host, last_call, db_exists, crash_file, opts, crashed_before,
                           start_func, exported, last_end, diffed>>

(***************************************************************************)
(* do_export after the loop, then export() after do_export.                *)
(***************************************************************************)
SaveCallgraph ==
  /\ pc = "save_callgraph"
  /\ tx_program' = tx_program \cup
       {[callgraph_primes |-> callgraph_primes,
         callgraph_all_primes |-> callgraph_all_primes]}
  /\ pc' = NextPc(pc)
  /\ UNCHANGED <<host, last_call, disk, opts, locals, tx_functions, tx_meta, exported,
                 run, last_end, diffed>>

ExportStructures ==
  /\ pc = "export_structures"
  /\ tx_meta' = tx_meta \cup {"structures"}
  /\ pc' = NextPc(pc)
  /\ UNCHANGED <<host, last_call, disk, opts, locals, tx_functions, tx_program, exported,
                 run, last_end, diffed>>

ExportTil ==
  /\ pc = "export_til"
  /\ tx_meta' = tx_meta \cup {"til"}
  /\ pc' = NextPc(pc)
  /\ UNCHANGED <<host, last_call, disk, opts, locals, tx_functions, tx_program, exported,
                 run, last_end, diffed>>

CreateIndexes ==
  /\ pc = "create_indexes"
  /\ tx_meta' = tx_meta \cup {"indexes"}
  /\ pc' = NextPc(pc)
  /\ UNCHANGED <<host, last_call, disk, opts, locals, tx_functions, tx_program, exported,
                 run, last_end, diffed>>

\* export(): self.db.commit()
FinalCommit ==
  /\ pc = "commit"
  /\ functions' = ViewFunctions
  /\ program' = program \cup tx_program
  /\ meta' = meta \cup tx_meta
  /\ tx_functions' = <<>>
  /\ tx_program' = {}
  /\ tx_meta' = {}
  /\ pc' = NextPc(pc)
  /\ UNCHANGED <<host, last_call, db_exists, crash_file, opts, locals, exported, run,
                 last_end, diffed>>

\* export(): os.remove("%s-crash" % self.db_name)
RemoveCrashFile ==
  /\ pc = "remove_crash"
  /\ crash_file' = FALSE
  /\ run' = [run EXCEPT !.sentinel = "removed"]
  /\ pc' = NextPc(pc)
  /\ UNCHANGED <<host, last_call, db_exists, functions, program, meta, opts, locals, tx,
                 exported, last_end, diffed>>

\* export(): cur.execute("analyze")
Analyze ==
  /\ pc = "analyze"
  /\ meta' = meta \cup {"analyze"}
  /\ pc' = NextPc(pc)
  /\ UNCHANGED <<host, last_call, db_exists, crash_file, functions, program, opts, locals,
                 tx, exported, run, last_end, diffed>>

\* export(): self.db_close(), and the return to the caller (exported = True)
DbClose ==
  /\ pc = "db_close"
  /\ pc' = NextPc(pc)
  /\ exported' = TRUE
  /\ last_end' = "completed"
  /\ UNCHANGED <<host, last_call, disk, opts, locals, tx, run, diffed>>

(***************************************************************************)
(* The caller after the export: _diff_or_export goes on to the diff when   *)
(* opts.file_in (file_in: it is not "") is not empty; main() ends the       *)
(* process.                                                                *)
(***************************************************************************)
AfterExport(file_in) ==
  /\ pc = "after_export"
  /\ file_in = (opts.file_in # EmptyName)
  /\ diffed' = IF opts.entry = "doe" /\ file_in
                 THEN [ran |-> TRUE, complete |-> DbComplete]
                 ELSE diffed
  /\ Exit(last_end)
  /\ UNCHANGED <<host, last_call, disk, run>>

(***************************************************************************)
(* KeyboardInterrupt raised while export() runs.                           *)
(***************************************************************************)
KeyboardInterrupt ==
  /\ pc \in ExportPcs
  /\ IF opts.entry = "doe" /\ ~opts.profile /\ crash_file
       THEN \* the handler removes the sentinel; execution goes on after the
            \* try statement
            /\ crash_file' = FALSE
            /\ pc' = "after_export"
            /\ exported' = FALSE
            /\ last_end' = "cancelled"
            /\ UNCHANGED <<host, last_call, db_exists, functions, program, meta, opts,
                           locals, tx, run, diffed>>
     ELSE IF opts.entry = "main"
       THEN \* the handler removes the sentinel, then idaapi.qexit(0)
            /\ crash_file' = FALSE
            /\ Exit("cancelled")
            /\ UNCHANGED <<host, last_call, db_exists, functions, program, meta, run,
                           diffed>>
     ELSE \* profiled export (no handler), or os.remove of the handler raised:
          \* the bare except of _diff_or_export ends the call
          /\ Exit("cancelled")
          /\ UNCHANGED <<host, last_call, disk, run, diffed>>

(***************************************************************************)
(* The process is killed (or the host crashes) while an invocation runs.   *)
(***************************************************************************)
Crash ==
  /\ pc \in ExportPcs \cup {"after_export"}
  /\ Exit(IF pc \in ExportPcs THEN "crashed" ELSE last_end)
  /\ UNCHANGED <<host, last_call, disk, run, diffed>>

Next ==
  \/ \E profile \in BOOLEAN, files \in FileChoices,
        resume_ans \in {-1, 0, 1}, overwrite_ans \in {-1, 0, 1},
        can_delete \in BOOLEAN :
       DiffOrExportStart(profile, files[1], files[2], resume_ans,
                         overwrite_ans, can_delete)
  \/ WarningClosed
  \/ \E can_delete \in BOOLEAN : MainAuto(can_delete)
  \/ ExportBegin
  \/ DoExportInit
  \/ ExportFunction
  \/ SaveCallgraph
  \/ ExportStructures
  \/ ExportTil
  \/ CreateIndexes
  \/ FinalCommit
  \/ RemoveCrashFile
  \/ Analyze
  \/ DbClose
  \/ \E file_in \in BOOLEAN : AfterExport(file_in)
  \/ KeyboardInterrupt
  \/ Crash

Spec == Init /\ [][Next]_vars

(***************************************************************************)
(* Importing: a CIDABinDiff object was built over the primary database     *)
(* (self.names taken), then import_instruction runs for the matched        *)
(* instruction, any number of times, while the analyst keeps working.      *)
(***************************************************************************)
exporter == <<total_funcs, kinds, image_base, disk, locals, tx, pc, opts,
              exported, run, last_end, diffed, last_call>>

\* the exporter at rest
ExporterIdle ==
  /\ total_funcs = SmallTotal
  /\ kinds = [p \in CandPos(SmallTotal) |-> "ok"]
  /\ image_base = 0
  /\ db_exists = FALSE
  /\ crash_file = FALSE
  /\ functions = <<>>
  /\ program = {}
  /\ meta = {}
  /\ pc = "idle"
  /\ opts = NoOpts
  /\ crashed_before = FALSE
  /\ start_func = None
  /\ i = 0
  /\ tx_functions = <<>>
  /\ tx_program = {}
  /\ tx_meta = {}
  /\ callgraph_primes = 1
  /\ callgraph_all_primes = <<>>
  /\ exported = FALSE
  /\ run = NoRun
  /\ last_end = "none"
  /\ diffed = NoDiff
  /\ last_call = NoCall

\* names an address can carry when the object is built: ea1 itself is a
\* plain instruction, the next instruction has a label or none, every other
\* address has a placeholder or a name of the analyst
InitialNames(x) ==
  {[a \in Addrs |->
      IF a \notin u THEN DummyName(a)
      ELSE IF a = "next" THEN "" ELSE UserName(a)] :
     u \in SUBSET Referenced(x)}

\* dict(Names()): every address with a name of its own, which includes the
\* names of the analyst and may include names the host assigned
NamesSnapshots(x, tn) ==
  {ns \in SUBSET (Referenced(x) \ {"next"}) :
     \A a \in Referenced(x) : tn[a] = UserName(a) => a \in ns}

InitImport ==
  /\ ExporterIdle
  /\ AloneQuiet
  /\ xrefs \in XrefsConfigs
  /\ true_names \in InitialNames(xrefs)
  /\ names \in NamesSnapshots(xrefs, true_names)
  /\ comments \in [{0, 1} -> {None, Some("old_cmt")}]
  /\ \E c \in {None, Some("old_pcmt")} :
       user_cmts = [p \in Itps |-> IF p = 1 THEN c ELSE None]
  /\ \E t \in {None, Some("old_type")} :
       types = [a \in Addrs |-> IF a \in Referenced(xrefs) THEN t ELSE None]
  /\ imported = NotImported

ImportInstruction(ins_data2, cfunc) ==
  LET after == import_instruction(ins_data2, cfunc) IN
    /\ comments' = after.comments
    /\ user_cmts' = after.user_cmts
    /\ true_names' = after.true_names
    /\ types' = after.types
    /\ imported' =
         LET db == [comments |-> comments, user_cmts |-> user_cmts,
                    true_names |-> true_names, types |-> types]
             again == IF imported.done
                        THEN /\ imported.ins_data2 = ins_data2
                             /\ imported.cfunc = cfunc
                        ELSE FALSE
         IN  [done |-> TRUE, before |-> db, ins_data2 |-> ins_data2,
              cfunc |-> cfunc,
              \* this call repeats the previous one, nothing in between
              again |-> again,
              \* ... and the previous one changed the database
              prev_changed |-> again /\ imported.before # db]
    /\ UNCHANGED <<xrefs, names, exporter, alone>>

\* the analyst names an address after the object was built; self.names is
\* not taken again
UserRename(a) ==
  /\ true_names[a] # UserName(a)
  /\ true_names' = [true_names EXCEPT ![a] = UserName(a)]
  /\ imported' = NotImported
  /\ UNCHANGED <<comments, user_cmts, types, xrefs, names, exporter, alone>>

NextImport ==
  \/ \E ins_data2 \in InsData2 :
       \E cfunc \in (IF ins_data2.mcmt = None THEN {FALSE} ELSE BOOLEAN) :
         ImportInstruction(ins_data2, cfunc)
  \/ \E a \in Referenced(xrefs) \ {"next"} : UserRename(a)

SpecImport == InitImport /\ [][NextImport]_vars


(***************************************************************************)
(* Properties of the export pipeline.                                      *)
(***************************************************************************)
RunningDoExport == {"loop", "save_callgraph", "export_structures",
                    "export_til", "create_indexes", "commit", "remove_crash",
                    "analyze", "db_close"}

ExportReturned == pc = "after_export" /\ exported

\* the rows of the functions table of an export of the list that was never
\* interrupted
Sanity_FreshExportIsFull ==
  (ExportReturned /\ ~run.resume) =>
     /\ Range(functions) = FullRows
     /\ Len(functions) = Cardinality(FullRows)

\* C1: an export that was interrupted and then run again in resume mode
\* (sentinel present, same function list, same image base) ends with the
\* functions table holding exactly the rows of one uninterrupted export.
C1_ResumeEqualsUninterrupted ==
  (ExportReturned /\ run.resume) =>
     /\ Range(functions) = FullRows
     /\ Len(functions) = Cardinality(FullRows)

\* a resumed export over committed rows has returned
C1_Witness ==
  /\ ExportReturned
  /\ run.resume
  /\ run.prior # <<>>
  /\ Len(functions) = 3

\* C2: in resume mode do_export skips the list up to and including the
\* function of the most recently inserted row, then reads and saves every
\* later function exactly once; the rows committed before the crash stay as
\* they were and none is saved again.
C2_ResumeSkipsThenExportsRest ==
  (ExportReturned /\ run.resume /\ run.prior # <<>>) =>
     LET last == run.prior[Len(run.prior)].address
         later == {p \in ExportablePos : FuncEA(p) > last}
     IN  /\ Range(run.saved) = {FuncEA(p) - image_base : p \in later}
         /\ Len(run.saved) = Cardinality(later)
         /\ Len(functions) = Len(run.prior) + Len(run.saved)
         /\ SubSeq(functions, 1, Len(run.prior)) = run.prior
         /\ \A k \in 1..Len(run.saved) :
              functions[Len(run.prior) + k].rva = run.saved[k]

\* three functions, the crash after the second was committed, the third
\* exported by the resumed run
C2_Witness ==
  /\ ExportReturned
  /\ run.resume
  /\ Len(run.prior) = 2
  /\ Len(run.saved) = 1
  /\ Len(functions) = 3

C4_CancelRemovesSentinel ==
  (pc = "idle" /\ last_end = "cancelled") => ~crash_file

\* a cancelled export whose caller returned
C4_Witness == pc = "idle" /\ last_end = "cancelled" /\ ~crash_file /\ db_exists

\* C5: the database a cancelled export leaves behind is never diffed while
\* it is partial: not by the invocation that was cancelled, and not by a
\* later invocation that keeps it instead of exporting again.
C5_CancelDiscardsProgress ==
  (last_end = "cancelled" /\ diffed.ran) => diffed.complete

\* an invocation whose export was cancelled has returned, the partial
\* database is on disk
C5_Witness ==
  /\ pc = "idle"
  /\ last_end = "cancelled"
  /\ db_exists
  /\ ~DbComplete

\* C6: from the creation of the sentinel by export() to its removal at the
\* end of export() the sentinel exists, and no function is read or saved
\* before export() created it, in a fresh export and in resume mode.
C6_SentinelWhileExporting ==
  /\ (pc \in RunningDoExport \cup {"do_export"} /\ run.sentinel = "made")
       => crash_file
  /\ (pc \in ExportPcs /\ (i > 0 \/ run.first_read \/ run.saved # <<>>))
       => run.sentinel # "no"
  /\ pc \in {"do_export", "loop"} => run.sentinel = "made"

\* the loop of a resumed export is running
C6_Witness == pc = "loop" /\ i > 0 /\ run.resume /\ crash_file

\* C7: when export() has removed the sentinel, every function of the list was
\* processed, the call graph, structures, type libraries and indexes are
\* saved and committed, and only analyze and the close remain.
C7_SentinelRemovedLast ==
  run.sentinel = "removed" =>
     /\ pc \in {"analyze", "db_close", "after_export", "idle", "warning"}
     /\ pc \notin {"idle", "warning"} => i = total_funcs
     /\ tx_functions = <<>> /\ tx_program = {} /\ tx_meta = {}
     /\ program # {}
     /\ {"structures", "til", "indexes"} \subseteq meta
     /\ Len(functions) >= Len(run.prior) + Len(run.saved)

\* the sentinel was just removed after an export that saved functions
C7_Witness == pc = "analyze" /\ run.sentinel = "removed" /\ run.saved # <<>>

\* C8: no export run is ended by a failure of read_function on one function.
C8_ReadFailureContained == last_end # "error"

\* an export with a function whose bytes, decoding or SCC step failed returned
C8_Witness ==
  /\ ExportReturned
  /\ \E p \in DOMAIN kinds : kinds[p] \in {"decodefail", "unreadable", "sccfail"}

(***************************************************************************)
(* Properties of import_instruction (checked under SpecImport).            *)
(***************************************************************************)
\* C9: an import never changes an annotation that exists at the primary
\* address: a regular comment, a repeatable comment and a pseudocode comment
\* that exist before import_instruction still have their value after it.
C9_ExistingAnnotationsKept ==
  imported.done =>
    /\ \A r \in {0, 1} :
         imported.before.comments[r] # None
           => comments[r] = imported.before.comments[r]
    /\ \A p \in Itps :
         imported.before.user_cmts[p] # None
           => user_cmts[p] = imported.before.user_cmts[p]

\* the secondary row carried both comments, the primary had a regular
\* comment and no repeatable one: the first is kept, the second filled in
C9_Witness ==
  /\ imported.done
  /\ imported.ins_data2.cmt1 # None
  /\ imported.ins_data2.cmt2 # None
  /\ imported.before.comments[0] = Some("old_cmt")
  /\ imported.before.comments[1] = None
  /\ comments[0] = Some("old_cmt")
  /\ comments[1] = imported.ins_data2.cmt2

\* C10: an import renames or retypes an address only when the name there was
\* an auto-generated placeholder; the address is the referenced global (the
\* data item or the object its offset points to) when ea1 has a data
\* reference, otherwise the target of its code reference, and never ea1
\* itself.
C10_RenameOnlyPlaceholders ==
  imported.done =>
    \A a \in Addrs :
      (\/ true_names[a] # imported.before.true_names[a]
       \/ types[a] # imported.before.types[a])
        => /\ is_auto_generated(imported.before.true_names[a])
           /\ a # "ea1"
           /\ IF xrefs.data_refs # <<>>
                THEN a \in {"global", "object"}
                ELSE a \in Range(xrefs.fcode_refs) \cup Range(xrefs.code_refs)

\* the secondary row carried a name, the referenced global was in the name
\* snapshot with a name of the analyst: it kept its name and type
C10_Witness ==
  /\ imported.done
  /\ imported.ins_data2.name # None
  /\ imported.ins_data2.mtype # None
  /\ xrefs.data_refs = <<"global">>
  /\ "global" \in names
  /\ imported.before.true_names["global"] = UserName("global")
  /\ true_names = imported.before.true_names
  /\ types = imported.before.types

MaxLines == 2
Rvas == 1..MaxLines

Sides == {"main", "diff"}

\* what the row of a diff instruction carries
MetaKinds == {"none", "cmt1", "cmt2", "name", "pcmt"}

\* sequences without repetition, at most n long
InjSeqs(S, n) ==
  {q \in UNION {[1..k -> S] : k \in 0..n} :
     \A a, b \in DOMAIN q : a # b => q[a] # q[b]}

\* a row of instructions as the two selects return it
MainRow(ea) == [side |-> "main", ea |-> ea]
DiffRow(ea, kind) ==
  [side |-> "diff", ea |-> ea,
   cmt1 |-> IF kind = "cmt1" THEN Some("sec_cmt") ELSE None,
   cmt2 |-> IF kind = "cmt2" THEN Some("sec_rcmt") ELSE None,
   name |-> IF kind = "name" THEN Some("sec_name") ELSE None,
   pcmt |-> IF kind = "pcmt" THEN Some("sec_pcmt") ELSE None]

\* order of the texts json.dumps gives two lists of one-digit numbers:
\* -1, 0, 1.  Where one list ends and the other goes on, "," sorts before
\* "]", and a digit sorts before "]".
RECURSIVE TextCmp(_, _)
TextCmp(a, b) ==
  IF a = <<>> /\ b = <<>> THEN 0
  ELSE IF a = <<>> THEN 1
  ELSE IF b = <<>> THEN -1
  ELSE IF Head(a) < Head(b) THEN -1
  ELSE IF Head(a) > Head(b) THEN 1
  ELSE TextCmp(Tail(a), Tail(b))

\* the alignments _mdiff can give for n1 and n2 lines, from lines li and rj on:
\* a pair of lines (changed or not), a line of the left only, a line of the
\* right only; 0 stands for the empty line number
RECURSIVE Alignments(_, _, _, _)
Alignments(n1, n2, li, rj) ==
  IF li > n1 /\ rj > n2 THEN {<<>>}
  ELSE (IF li <= n1 /\ rj <= n2
          THEN {<<[l |-> li, r |-> rj, changed |-> c]>> \o t :
                  c \in BOOLEAN, t \in Alignments(n1, n2, li + 1, rj + 1)}
          ELSE {})
       \cup (IF li <= n1
               THEN {<<[l |-> li, r |-> 0, changed |-> TRUE]>> \o t :
                       t \in Alignments(n1, n2, li + 1, rj)}
               ELSE {})
       \cup (IF rj <= n2
               THEN {<<[l |-> 0, r |-> rj, changed |-> TRUE]>> \o t :
                       t \in Alignments(n1, n2, li, rj + 1)}
               ELSE {})

\* "select ... order by 2 asc": the rows of the functions that have an
\* assembly, ordered by the text of assembly_addrs (the second column)
DiffRows(addrs, has_asm, tie_main_first) ==
  LET c == TextCmp(addrs["main"], addrs["diff"])
      main_first == c < 0 \/ (c = 0 /\ tie_main_first)
  IN  IF has_asm["main"] /\ has_asm["diff"]
        THEN IF main_first THEN <<"main", "diff">> ELSE <<"diff", "main">>
      ELSE IF has_asm["main"] THEN <<"main">>
      ELSE IF has_asm["diff"] THEN <<"diff">>
      ELSE <<>>

\* import_rows / import_syms: the diff rows that carry something
import_syms(inp) ==
  [ea \in {a \in DOMAIN inp.meta : inp.meta[a] # "none"} |->
     DiffRow(ea, inp.meta[ea])]

\* match_rows / matched_syms
matched_syms(inp) == [ea \in inp.stored |-> MainRow(ea)]

\* row_is_importable: comment1, comment2, comment2 again, pseudocomment
row_is_importable(ea2, syms) ==
  IF ea2 \notin DOMAIN syms THEN FALSE
  ELSE IF syms[ea2].cmt1 # None THEN TRUE
  ELSE IF syms[ea2].cmt2 # None THEN TRUE
  ELSE IF syms[ea2].cmt2 # None THEN TRUE
  ELSE IF syms[ea2].pcmt # None THEN TRUE
  ELSE FALSE

\* the loop over diff_list from entry k on: the pairs looked at and the
\* calls of import_instruction, in order
RECURSIVE LevelLoop(_, _, _, _)
LevelLoop(inp, address1, address2, k) ==
  IF k > Len(inp.diff_list) THEN [looked |-> <<>>, calls |-> <<>>]
  ELSE
    LET x == inp.diff_list[k]
        rest == LevelLoop(inp, address1, address2, k + 1)
    IN  IF x.r = 0 \/ x.l = 0 THEN rest
        ELSE
          LET ea1 == address1[x.l]
              ea2 == address2[x.r]
              changed == x.changed
              is_importable == row_is_importable(ea2, import_syms(inp))
              call == /\ changed \/ is_importable
                      /\ ea2 \in DOMAIN matched_syms(inp)
                      /\ ea1 \in DOMAIN import_syms(inp)
          IN  [looked |-> <<[k |-> k, proposed |-> changed \/ is_importable]>>
                            \o rest.looked,
               calls |-> (IF call
                            THEN <<[k |-> k,
                                    ins_data1 |-> matched_syms(inp)[ea2],
                                    ins_data2 |-> import_syms(inp)[ea1]]>>
                            ELSE <<>>) \o rest.calls]

\* import_instruction_level: what it did, and whether it raised
import_instruction_level(inp) ==
  LET nothing == [done |-> TRUE, raised |-> None, rows |-> <<>>,
                  looked |-> <<>>, calls |-> <<>>]
      diff_rows == DiffRows(inp.addrs, inp.has_asm, inp.tie_main_first)
  IN  IF DOMAIN import_syms(inp) = {} THEN nothing
      ELSE IF DOMAIN matched_syms(inp) = {} THEN nothing
      ELSE IF Len(diff_rows) = 0 THEN nothing
      ELSE IF Len(diff_rows) = 1
        THEN [nothing EXCEPT !.raised = Some("IndexError"), !.rows = diff_rows]
      ELSE LET r == LevelLoop(inp, inp.addrs[diff_rows[1]],
                              inp.addrs[diff_rows[2]], 1)
           IN  [nothing EXCEPT !.rows = diff_rows, !.looked = r.looked,
                               !.calls = r.calls]

\* what a matched function pair can look like: every stored row is an
\* instruction of the main function, only instructions of the diff function
\* carry something, and diff_list is an alignment of the two listings in the
\* order of the rows
InitLevel ==
  /\ ExporterIdle
  /\ IdbQuiet
  /\ ReadQuiet
  /\ FnQuiet
  /\ level_out = NotCalled
  /\ \E ad \in [Sides -> InjSeqs(Rvas, MaxLines)], ha \in [Sides -> BOOLEAN] :
       \E tf \in (IF ad["main"] = ad["diff"] THEN BOOLEAN ELSE {TRUE}),
          st \in SUBSET Range(ad["main"]),
          me \in [Range(ad["diff"]) -> MetaKinds] :
         LET rows == DiffRows(ad, ha, tf) IN
           \E dl \in (IF Len(rows) = 2
                        THEN Alignments(Len(ad[rows[1]]), Len(ad[rows[2]]),
                                        1, 1)
                        ELSE {<<>>}) :
             level_in = [done |-> TRUE, addrs |-> ad, has_asm |-> ha,
                         stored |-> st, meta |-> me, tie_main_first |-> tf,
                         diff_list |-> dl]

ImportInstructionLevel ==
  /\ level_in.done
  /\ ~level_out.done
  /\ level_out' = import_instruction_level(level_in)
  /\ UNCHANGED <<exporter, idb, level_in, read_in, read_out, fn_in, fn_out>>

NextLevel == ImportInstructionLevel

SpecLevel == InitLevel /\ [][NextLevel]_vars

(***************************************************************************)
(* Properties of import_instruction_level (checked under SpecLevel).       *)
(***************************************************************************)
\* the line of the main (primary) and of the diff (secondary) listing that
\* entry k of diff_list aligns
MainLine(k) ==
  IF level_out.rows[1] = "main" THEN level_in.diff_list[k].l
                                ELSE level_in.diff_list[k].r
DiffLine(k) ==
  IF level_out.rows[1] = "main" THEN level_in.diff_list[k].r
                                ELSE level_in.diff_list[k].l
MainAddr(k) == level_in.addrs["main"][MainLine(k)]
DiffAddr(k) == level_in.addrs["diff"][DiffLine(k)]

\* C12: for every eligible aligned pair (line i of the primary listing, line
\* j of the secondary listing) whose two addresses have a row, the call of
\* import_instruction is given the main row of address1[i-1] and the diff
\* row of address2[j-1]; no other call is made.
C12_RowsOfTheirOwnSide ==
  level_out.done =>
    /\ \A n \in DOMAIN level_out.calls :
         LET c == level_out.calls[n] IN
           /\ c.ins_data1 = matched_syms(level_in)[c.ins_data1.ea]
           /\ c.ins_data2 = import_syms(level_in)[c.ins_data2.ea]
           /\ c.ins_data1.ea = MainAddr(c.k)
           /\ c.ins_data2.ea = DiffAddr(c.k)
    /\ \A n \in DOMAIN level_out.looked :
         LET e == level_out.looked[n] IN
           (/\ e.proposed
            /\ MainAddr(e.k) \in DOMAIN matched_syms(level_in)
            /\ DiffAddr(e.k) \in DOMAIN import_syms(level_in))
             => \E m \in DOMAIN level_out.calls : level_out.calls[m].k = e.k

\* two listings with the same addresses, the main one first: a call was
\* made with the rows of the aligned pair
C12_Witness ==
  /\ level_out.done
  /\ level_out.rows = <<"main", "diff">>
  /\ level_in.addrs["main"] = <<1, 2>>
  /\ level_in.addrs["diff"] = <<1, 2>>
  /\ Len(level_out.calls) = 2
  /\ \A n \in 1..2 : /\ level_out.calls[n].ins_data1.ea = n
                     /\ level_out.calls[n].ins_data2.ea = n

\* the instruction of the diff listing that entry k aligns carries a regular
\* comment, a repeatable comment, a name or a pseudocode comment
Carries(k) == level_in.meta[DiffAddr(k)] # "none"

\* C13: an aligned line pair is proposed for propagation if and only if it
\* is marked changed or the aligned instruction of the diff database carries
\* a regular comment, a repeatable comment, a name or a pseudocode comment.
C13_ProposedIffChangedOrCarries ==
  level_out.done =>
    \A n \in DOMAIN level_out.looked :
      LET e == level_out.looked[n] IN
        e.proposed <=> (level_in.diff_list[e.k].changed \/ Carries(e.k))

\* an unchanged pair whose diff instruction carries a comment was proposed,
\* an unchanged pair whose diff instruction carries nothing was not
C13_Witness ==
  /\ level_out.done
  /\ level_out.rows = <<"main", "diff">>
  /\ Len(level_out.looked) = 2
  /\ \A n \in 1..2 : ~level_in.diff_list[level_out.looked[n].k].changed
  /\ level_out.looked[1].proposed
  /\ level_in.meta[DiffAddr(level_out.looked[1].k)] = "cmt1"
  /\ ~level_out.looked[2].proposed
  /\ level_in.meta[DiffAddr(level_out.looked[2].k)] = "none"

\* C14: import_instruction_level never raises; when a function has no
\* stored assembly, when nothing is importable or when an aligned address
\* has no row, nothing is propagated for that pair.
C14_LevelNeverRaises ==
  level_out.done =>
    /\ level_out.raised = None
    /\ (~level_in.has_asm["main"] \/ ~level_in.has_asm["diff"])
         => level_out.calls = <<>>
    /\ DOMAIN import_syms(level_in) = {} => level_out.calls = <<>>
    /\ \A n \in DOMAIN level_out.calls :
         /\ level_out.calls[n].ins_data1.ea \in level_in.stored
         /\ level_out.calls[n].ins_data2.ea \in DOMAIN import_syms(level_in)

\* an aligned, changed pair whose main instruction has no stored row: the
\* call returned without a call of import_instruction
C14_Witness ==
  /\ level_out.done
  /\ level_out.raised = None
  /\ level_out.calls = <<>>
  /\ DOMAIN import_syms(level_in) # {}
  /\ \E n \in DOMAIN level_out.looked :
       /\ level_out.looked[n].proposed
       /\ MainAddr(level_out.looked[n].k) \notin level_in.stored

(***************************************************************************)
(* _diff_or_export: the validation of the file names.                      *)
(***************************************************************************)
\* the names of FileChoices that name an IDA file
NamesAnIdaFile(filename) == filename \in {IdbName, I64Name}

InvalidNames(file_out, file_in) ==
  \/ file_out = file_in
  \/ file_out = EmptyName \/ Len(file_out) < 5
  \/ NamesAnIdaFile(file_in) \/ NamesAnIdaFile(file_out)

\* C15: when file_out equals file_in, or file_out is empty or shorter than 5
\* characters, or one of the two names an IDA file, the call of
\* _diff_or_export only shows its warning and returns: the database file,
\* the sentinel, the tables and the export / diff history are exactly as the
\* call found them, and no export or diff was started.
C15_InvalidNamesReturnBeforeWork ==
  (opts.entry = "doe" /\ InvalidNames(opts.file_out, opts.file_in))
    => (pc = "warning" /\ last_call = Some(CallState))

\* a call with an IDA file as output, made while a database and the sentinel
\* of a crashed export were on the disk, was refused and left both
C15_Witness ==
  /\ pc = "warning"
  /\ opts.file_out = I64Name
  /\ opts.file_in = InName
  /\ last_call = Some(CallState)
  /\ db_exists /\ crash_file

(***************************************************************************)
(* read_function, from the loop over the flow chart to the props tuple:    *)
(* the part that works on the blocks of the function.  Every block has one *)
(* instruction, at its start address.                                      *)
(***************************************************************************)
MaxBlocks == 3
MaxEdges == 3
\* idaapi.BADADDR is ea_t(-1), all bits set
BADADDR == -1

\* d[k] = v on a Python dict
Put(d, k, v) == [x \in DOMAIN d \cup {k} |-> IF x = k THEN v ELSE d[x]]

\* sorted(S)
RECURSIVE Ascending(_)
Ascending(S) ==
  IF S = {} THEN <<>>
  ELSE LET m == CHOOSE x \in S : \A y \in S : x <= y
       IN  <<m>> \o Ascending(S \ {m})

\* block.succs() / block.preds() of the b-th block of the flow chart
succs(inp, b) == Ascending({j \in DOMAIN inp.flow : <<b, j>> \in inp.edges})
preds(inp, b) == Ascending({j \in DOMAIN inp.flow : <<j, b>> \in inp.edges})

\* the locals of read_function before the loop over the blocks
ReadLocals(inp) ==
  [nodes |-> 0, edges |-> 0, indegree |-> inp.code_refs_to, outdegree |-> 0,
   assembly |-> <<>>, bb_relations |-> <<>>, bb_topo_num |-> <<>>,
   bb_topological |-> <<>>, bb_degree |-> <<>>, bb_edges |-> <<>>,
   succ_block_bound |-> FALSE, raised |-> "no"]

\* for succ_block in block.succs()
RECURSIVE SuccLoop(_, _, _, _)
SuccLoop(inp, st, b, js) ==
  IF js = <<>> THEN st
  ELSE
    LET succ_block == inp.flow[Head(js)]
        block_ea == inp.flow[b].startEA - image_base
        succ_base == succ_block.startEA - image_base
        deg_out == Put(st.bb_degree, block_ea,
                       <<st.bb_degree[block_ea][1],
                         st.bb_degree[block_ea][2] + 1>>)
        deg_new == IF succ_base \in DOMAIN deg_out THEN deg_out
                   ELSE Put(deg_out, succ_base, <<0, 0>>)
        deg_in == Put(deg_new, succ_base,
                      <<deg_new[succ_base][1] + 1, deg_new[succ_base][2]>>)
        skipped == [st EXCEPT !.succ_block_bound = TRUE]
        taken == [st EXCEPT
                    !.bb_relations = Put(@, block_ea,
                                         Append(@[block_ea], succ_base)),
                    !.bb_degree = deg_in,
                    !.bb_edges = Append(@, <<block_ea, succ_base>>),
                    !.edges = @ + 1,
                    !.indegree = @ + 1,
                    !.succ_block_bound = TRUE]
    IN  SuccLoop(inp, IF succ_block.endEA = 0 THEN skipped ELSE taken, b,
                 Tail(js))

\* for pred_block in block.preds(); its last statement reads succ_block,
\* which is unbound until a successor loop has run once
RECURSIVE PredLoop(_, _, _, _)
PredLoop(inp, st, b, js) ==
  IF js = <<>> \/ st.raised # "no" THEN st
  ELSE
    LET pred_block == inp.flow[Head(js)]
        block_ea == inp.flow[b].startEA - image_base
        pred_base == pred_block.startEA - image_base
        counted == [st EXCEPT
                      !.bb_relations =
                         IF pred_base \in DOMAIN @
                           THEN Put(@, pred_base, Append(@[pred_base], block_ea))
                           ELSE Put(@, pred_base, <<block_ea>>),
                      !.edges = @ + 1,
                      !.outdegree = @ + 1]
        taken == IF st.succ_block_bound THEN counted
                 ELSE [counted EXCEPT !.raised = "UnboundLocalError"]
    IN  PredLoop(inp, IF pred_block.endEA = 0 THEN st ELSE taken, b, Tail(js))

\* a line of assembly[block_ea]: [x - image_base, text]
AsmLine(x, text) == <<x - image_base, <<text, x>>>>

\* for block in flow (the first loop)
RECURSIVE BlockLoop(_, _, _)
BlockLoop(inp, st, b) ==
  IF b > Len(inp.flow) \/ st.raised # "no" THEN st
  ELSE
    LET block == inp.flow[b]
        block_ea == block.startEA - image_base
        idx == Len(st.bb_topological)
        x == block.startEA
        first == IF st.nodes + 1 = 1
                   THEN <<AsmLine(x, "disasm")>>
                   ELSE <<AsmLine(x, "loc"), AsmLine(x, "disasm")>>
        entered == [st EXCEPT
                      !.nodes = @ + 1,
                      !.bb_topological = Append(@, <<>>),
                      !.bb_topo_num = Put(@, block_ea, idx),
                      !.assembly =
                         IF block_ea \in DOMAIN @
                           THEN Put(@, block_ea,
                                    Append(@[block_ea], AsmLine(x, "disasm")))
                           ELSE Put(@, block_ea, first),
                      !.bb_relations = Put(@, block_ea, <<>>),
                      !.bb_degree = IF block_ea \in DOMAIN @ THEN @
                                    ELSE Put(@, block_ea, <<0, 0>>)]
    IN  IF block.endEA = 0 \/ block.endEA = BADADDR
          THEN BlockLoop(inp, st, b + 1)
          ELSE BlockLoop(inp,
                         PredLoop(inp,
                                  SuccLoop(inp, entered, b, succs(inp, b)),
                                  b, preds(inp, b)),
                         b + 1)

\* the second loop: bb_topological[bb_topo_num[block_ea]].append(...)
RECURSIVE TopoSuccLoop(_, _, _, _)
TopoSuccLoop(inp, st, b, js) ==
  IF js = <<>> \/ st.raised # "no" THEN st
  ELSE
    LET succ_block == inp.flow[Head(js)]
        block_ea == inp.flow[b].startEA - image_base
        succ_base == succ_block.startEA - image_base
        taken ==
          IF block_ea \notin DOMAIN st.bb_topo_num
             \/ succ_base \notin DOMAIN st.bb_topo_num
            THEN [st EXCEPT !.raised = "KeyError"]
            ELSE [st EXCEPT
                    !.bb_topological[st.bb_topo_num[block_ea] + 1] =
                       Append(@, st.bb_topo_num[succ_base])]
    IN  TopoSuccLoop(inp, IF succ_block.endEA = 0 THEN st ELSE taken, b,
                     Tail(js))

RECURSIVE TopoLoop(_, _, _)
TopoLoop(inp, st, b) ==
  IF b > Len(inp.flow) \/ st.raised # "no" THEN st
  ELSE IF inp.flow[b].endEA = 0 THEN TopoLoop(inp, st, b + 1)
  ELSE TopoLoop(inp, TopoSuccLoop(inp, st, b, succs(inp, b)), b + 1)

\* strongly_connected_components(bb_relations): the classes of mutually
\* reachable keys, each as a list
RECURSIVE ReachFrom(_, _)
ReachFrom(rel, seen) ==
  LET more == seen \cup UNION {Range(rel[a]) : a \in seen \cap DOMAIN rel}
  IN  IF more = seen THEN seen ELSE ReachFrom(rel, more)

Component(rel, a) ==
  {c \in DOMAIN rel : c \in ReachFrom(rel, {a}) /\ a \in ReachFrom(rel, {c})}

strongly_connected_components(rel) ==
  LET firsts == Ascending({a \in DOMAIN rel :
                             \A c \in Component(rel, a) : a <= c})
  IN  [k \in DOMAIN firsts |-> Ascending(Component(rel, firsts[k]))]

\* for item in strongly_connected: strongly_connected_spp *= self.primes[val];
\* fail tells where the try block is left by an exception
RECURSIVE Accumulate(_, _, _, _)
Accumulate(strongly_connected, fail, k, spp) ==
  IF k > Len(strongly_connected) THEN [ok |-> TRUE, spp |-> spp]
  ELSE IF fail.at = "accumulate" /\ fail.item = k
    THEN [ok |-> FALSE, spp |-> spp]
  ELSE LET val == Len(strongly_connected[k])
       IN  IF val <= 1
             THEN Accumulate(strongly_connected, fail, k + 1, spp)
           ELSE IF val >= Len(Primes)
             THEN [ok |-> FALSE, spp |-> spp]
           ELSE Accumulate(strongly_connected, fail, k + 1,
                           spp * Primes[val + 1])

\* the try statement around the SCC and the topological sort
SccStep(bb_relations, fail) ==
  LET sccs == strongly_connected_components(bb_relations)
      acc == Accumulate(sccs, fail, 1, 1)
      except(spp) == [strongly_connected |-> <<>>, bb_topological |-> None,
                      strongly_connected_spp |-> spp, failed |-> TRUE]
  IN  IF fail.at \in {"scc", "topological"} THEN except(0)
      ELSE IF ~acc.ok THEN except(acc.spp)
      ELSE [strongly_connected |-> sccs, bb_topological |-> Some("json"),
            strongly_connected_spp |-> acc.spp, failed |-> FALSE]

\* a different count: only the components of more than one block
LoopsOfManyBlocks(strongly_connected, bb_relations) ==
  Cardinality({k \in DOMAIN strongly_connected : Len(strongly_connected[k]) > 1})

\* loops
Loops(strongly_connected, bb_relations) ==
  Cardinality({k \in DOMAIN strongly_connected :
     LET sc == strongly_connected[k]
     IN  \/ Len(sc) > 1
         \/ /\ sc[1] \in DOMAIN bb_relations
            /\ sc[1] \in Range(bb_relations[sc[1]])})

\* keys.sort() without the move of the entry point
EntryLeft(keys, entry) == keys

\* keys.remove(f - image_base); keys.insert(0, f - image_base)
EntryFirst(keys, entry) ==
  LET Other(k) == k # entry
  IN  <<entry>> \o SelectSeq(keys, Other)

\* for key in keys: for line in assembly[key]
RECURSIVE Listing(_, _)
Listing(assembly, keys) ==
  IF keys = <<>> THEN <<>>
  ELSE assembly[Head(keys)] \o Listing(assembly, Tail(keys))

\* md_index: the int 0, or str(...) of the sum over bb_edges
MdIndex(bb_topological, bb_edges) ==
  IF bb_topological # None THEN <<"str", Len(bb_edges)>> ELSE <<"int", 0>>

\* read_function on the blocks of f: the fields of the props tuple that come
\* from the flow chart, or the exception that leaves read_function
read_function_blocks(inp) ==
  LET st == TopoLoop(inp, BlockLoop(inp, ReadLocals(inp), 1), 1)
      scc == SccStep(st.bb_relations, inp.fail)
      entry == inp.f - image_base
      keys == Ascending(DOMAIN st.assembly)
      lines == Listing(st.assembly, EntryFirst(keys, entry))
      cc == st.edges - st.nodes + 2
      counted == [done |-> TRUE, raised |-> st.raised, nodes |-> st.nodes,
                  edges |-> st.edges, indegree |-> st.indegree,
                  outdegree |-> st.outdegree,
                  bb_relations |-> st.bb_relations,
                  bb_degree |-> st.bb_degree]
  IN  IF st.raised # "no" THEN counted
      ELSE IF entry \notin DOMAIN st.assembly
        THEN [counted EXCEPT !.raised = "ValueError"]
      ELSE counted @@
           [cc |-> cc, prime |-> PrimeOfCC(cc),
            strongly_connected |-> Len(scc.strongly_connected),
            loops |-> Loops(scc.strongly_connected, st.bb_relations),
            bb_topological |-> scc.bb_topological,
            strongly_connected_spp |-> scc.strongly_connected_spp,
            scc_failed |-> scc.failed,
            md_index |-> MdIndex(scc.bb_topological, st.bb_edges),
            assembly_addrs |-> [k \in DOMAIN lines |-> lines[k][1]],
            asm |-> [k \in DOMAIN lines |-> lines[k][2]]]

\* where the try statement of the SCC step can be left by an exception
FailPoints(n) ==
  {[at |-> a, item |-> 1] : a \in {"none", "scc", "topological"}}
    \cup {[at |-> "accumulate", item |-> k] : k \in 1..n}

\* a function of up to MaxBlocks blocks, enumerated by the flow chart in any
\* order of their addresses, at most one of them with a bad end address, with
\* up to MaxEdges edges; f is the start of one of the blocks
InitRead ==
  /\ ExporterIdle
  /\ IdbQuiet
  /\ LevelQuiet
  /\ FnQuiet
  /\ read_out = NotCalled
  /\ \E n \in 1..MaxBlocks :
       \E rvas \in {q \in InjSeqs(1..n, n) : Len(q) = n},
          bad \in 0..n, entry \in 1..n,
          es \in {S \in SUBSET ((1..n) \X (1..n)) : Cardinality(S) <= MaxEdges},
          fail \in FailPoints(n) :
         \E bad_end \in (IF bad = 0 THEN {0} ELSE {0, BADADDR}) :
           read_in =
             [done |-> TRUE,
              flow |-> [b \in 1..n |->
                          [startEA |-> image_base + rvas[b],
                           endEA |-> IF b = bad THEN bad_end
                                     ELSE image_base + rvas[b] + 1]],
              edges |-> es,
              f |-> image_base + entry,
              code_refs_to |-> 0,
              fail |-> fail]

ReadFunction ==
  /\ read_in.done
  /\ ~read_out.done
  /\ read_out' = read_function_blocks(read_in)
  /\ UNCHANGED <<exporter, idb, level_in, level_out, read_in, fn_in, fn_out>>

NextRead == ReadFunction

SpecRead == InitRead /\ [][NextRead]_vars

(***************************************************************************)
(* Properties of read_function (checked under SpecRead).                   *)
(***************************************************************************)
\* read_function returned a props tuple
Returned == read_out.done /\ read_out.raised = "no"

\* the blocks of the flow chart with a bad end address, and the others
BadBlocks == {b \in DOMAIN read_in.flow : read_in.flow[b].endEA \in {0, BADADDR}}
GoodBlocks == DOMAIN read_in.flow \ BadBlocks
GoodEdges == {e \in read_in.edges : e[1] \in GoodBlocks /\ e[2] \in GoodBlocks}
GoodRvas == {read_in.flow[b].startEA - image_base : b \in GoodBlocks}

\* C16: a block whose end address is 0 or BADADDR is skipped wherever it is
\* met: read_function does not fail on it, and once the loop over the blocks
\* is through, the nodes, the edges (each edge is counted at both ends), the
\* in- and out-degree of the function, the keys of the adjacency map and the
\* keys of the per-block degree table are those of the other blocks alone.
C16_BadBlocksContributeNothing ==
  (read_out.done /\ read_out.raised # "UnboundLocalError")
    => /\ read_out.raised # "KeyError"
       /\ read_out.nodes = Cardinality(GoodBlocks)
       /\ read_out.edges = 2 * Cardinality(GoodEdges)
       /\ read_out.indegree = read_in.code_refs_to + Cardinality(GoodEdges)
       /\ read_out.outdegree = Cardinality(GoodEdges)
       /\ DOMAIN read_out.bb_relations = GoodRvas
       /\ DOMAIN read_out.bb_degree = GoodRvas

\* read_function was given a good block with a successor whose end address
\* is BADADDR
C16_Witness ==
  /\ read_out.done
  /\ \E e \in read_in.edges :
       /\ e[1] \in GoodBlocks
       /\ read_in.flow[e[2]].endEA = BADADDR

\* C17: in every record cc is edges - nodes + 2 of the same record, and cc is
\* at least 1.
C17_CyclomaticComplexity ==
  Returned => /\ read_out.cc = read_out.edges - read_out.nodes + 2
              /\ read_out.cc >= 1

\* a record of a function with a skipped block and an edge between two
\* other blocks
C17_Witness ==
  /\ Returned
  /\ BadBlocks # {}
  /\ read_out.nodes >= 2
  /\ read_out.edges > 0

\* C18: in every record the prime-of-cc field is 0 or the prime of the table
\* at index cc, 0 <= cc < size of the table; it is 0 when cc is beyond the
\* table, and the record is returned all the same.
C18_PrimeOfCcOrSentinel ==
  Returned =>
    /\ \/ read_out.prime = 0
       \/ /\ 0 <= read_out.cc /\ read_out.cc < Len(Primes)
          /\ read_out.prime = Primes[read_out.cc + 1]
    /\ read_out.cc >= Len(Primes) => read_out.prime = 0

\* a record whose cc is beyond the table
C18_Witness ==
  /\ Returned
  /\ read_out.cc >= Len(Primes)
  /\ read_out.prime = 0

\* C19: when the try statement of the SCC step was left by an exception, the
\* record has no SCC, no loop, a null topological order, SCC-prime hash 0 and
\* MD-index 0.
C19_SccFailureDegrades ==
  (Returned /\ read_out.scc_failed)
    => /\ read_out.strongly_connected = 0
       /\ read_out.loops = 0
       /\ read_out.bb_topological = None
       /\ read_out.strongly_connected_spp = 0
       /\ read_out.md_index = <<"int", 0>>

\* a record of a function with a loop whose SCC computation failed
C19_Witness ==
  /\ Returned
  /\ read_out.scc_failed
  /\ read_in.fail.at = "scc"
  /\ \E e \in GoodEdges : e[1] = e[2]

\* C20: in every record the first element of assembly_addrs is the RVA of f
\* and the first line of the assembly is a line of the block that starts at
\* f.
C20_EntryPointFirst ==
  Returned => /\ read_out.assembly_addrs[1] = read_in.f - image_base
              /\ read_out.asm[1][2] = read_in.f

\* a record of a function whose entry block has neither the lowest address
\* nor the first place in the flow chart
C20_Witness ==
  /\ Returned
  /\ read_in.flow[1].startEA # read_in.f
  /\ \E b \in GoodBlocks : read_in.flow[b].startEA < read_in.f
  /\ read_out.assembly_addrs[1] = read_in.f - image_base

(***************************************************************************)
(* read_function: the two products of primes, as functions of the          *)
(* instructions and of the SCC list they are computed from.                *)
(***************************************************************************)
MaxItems == 2

\* the mnemonics GetInstructionList() can return, and one it does not know
Mnemonics == 1..(Len(Primes) + 1)
UnknownMnem == 0

\* cpu_ins_list.index(mnem)
IndexOf(list, v) == (CHOOSE k \in DOMAIN list : list[k] = v) - 1

\* mnemonics_spp *= self.primes[cpu_ins_list.index(mnem)], over the
\* instructions in the order the blocks and Heads give them
RECURSIVE mnemonics_spp(_, _, _, _)
mnemonics_spp(stream, cpu_ins_list, k, spp) ==
  IF k > Len(stream) THEN [raised |-> "no", spp |-> spp]
  ELSE IF stream[k] \notin Range(cpu_ins_list)
    THEN mnemonics_spp(stream, cpu_ins_list, k + 1, spp)
  ELSE IF IndexOf(cpu_ins_list, stream[k]) >= Len(Primes)
    THEN [raised |-> "IndexError", spp |-> 0]
  ELSE mnemonics_spp(stream, cpu_ins_list, k + 1,
                     spp * Primes[IndexOf(cpu_ins_list, stream[k]) + 1])

\* strongly_connected_spp of a list of SCCs with the given sizes
strongly_connected_spp(sizes) ==
  LET strongly_connected == [k \in DOMAIN sizes |-> [b \in 1..sizes[k] |-> b]]
  IN  Accumulate(strongly_connected, [at |-> "none", item |-> 1], 1, 1).spp

\* the sequences with the same elements as q, each as many times
Permuted(q) ==
  {t \in [DOMAIN q -> Range(q)] :
     \A v \in Range(q) : Cardinality({k \in DOMAIN q : q[k] = v})
                          = Cardinality({k \in DOMAIN t : t[k] = v})}

SeqsUpTo(S, n) == UNION {[1..k -> S] : k \in 0..n}

\* two instruction streams and two SCC lists (by size), the second of each a
\* permutation of the first
InitHash ==
  /\ ExporterIdle
  /\ IdbQuiet
  /\ LevelQuiet
  /\ ReadQuiet
  /\ fn_out = NotCalled
  /\ \E cpu \in {Mnemonics, Mnemonics \ {1}} :
       \E stream \in SeqsUpTo(Mnemonics \cup {UnknownMnem}, MaxItems),
          sizes \in SeqsUpTo(1..Len(Primes), MaxItems) :
         \E stream2 \in Permuted(stream), sizes2 \in Permuted(sizes) :
           fn_in = [done |-> TRUE, fn |-> "hash",
                    cpu_ins_list |-> Ascending(cpu),
                    stream |-> stream, stream2 |-> stream2,
                    sizes |-> sizes, sizes2 |-> sizes2]

Hashes ==
  /\ fn_in.done
  /\ fn_in.fn = "hash"
  /\ ~fn_out.done
  /\ fn_out' = [done |-> TRUE,
                mnem |-> mnemonics_spp(fn_in.stream, fn_in.cpu_ins_list, 1, 1),
                mnem2 |-> mnemonics_spp(fn_in.stream2, fn_in.cpu_ins_list, 1, 1),
                scc |-> strongly_connected_spp(fn_in.sizes),
                scc2 |-> strongly_connected_spp(fn_in.sizes2)]
  /\ UNCHANGED <<exporter, idb, level_in, level_out, read_in, read_out, fn_in>>

NextHash == Hashes

SpecHash == InitHash /\ [][NextHash]_vars

\* C21: two instruction streams that are permutations of each other have the
\* same mnemonic-prime hash, and two SCC lists with the same sizes in another
\* order have the same SCC-prime hash.
C21_HashesOfTheMultiset ==
  fn_out.done => /\ fn_out.mnem = fn_out.mnem2
                 /\ fn_out.scc = fn_out.scc2

\* both hashes were computed for inputs given in two different orders
C21_Witness ==
  /\ fn_out.done
  /\ fn_in.stream # fn_in.stream2
  /\ fn_in.sizes # fn_in.sizes2
  /\ fn_out.mnem.raised = "no"
  /\ fn_out.mnem.spp > 1
  /\ fn_out.scc > 1

(***************************************************************************)
(* Exporting under a project script: self.hooks is set, and every function *)
(* of a small program is of a kind of HookKinds.                           *)
(***************************************************************************)
InitHook ==
  /\ total_funcs = SmallTotal
  /\ kinds \in [CandPos(SmallTotal) -> HookKinds]
  /\ image_base \in ImageBases
  /\ db_exists = FALSE
  /\ crash_file = FALSE
  /\ functions = <<>>
  /\ program = {}
  /\ meta = {}
  /\ pc = "idle"
  /\ opts = NoOpts
  /\ crashed_before = FALSE
  /\ start_func = None
  /\ i = 0
  /\ tx_functions = <<>>
  /\ tx_program = {}
  /\ tx_meta = {}
  /\ callgraph_primes = 1
  /\ callgraph_all_primes = <<>>
  /\ exported = FALSE
  /\ run = NoRun
  /\ last_end = "none"
  /\ diffed = NoDiff
  /\ last_call = NoCall
  /\ IdbQuiet
  /\ AloneQuiet

SpecHook == InitHook /\ [][Next]_vars

\* do_export is in its loop or has just left it
InLoop == pc \in {"loop", "save_callgraph"}

\* the rows the run in progress added to the functions table
NewRows == SubSeq(ViewFunctions, Len(run.prior) + 1, Len(ViewFunctions))

\* the aggregates do_export started from
ResumedRows == IF run.resume THEN run.prior ELSE <<>>

\* a function the before hook refused is skipped: not saved, not given to the
\* after hook, and the loop goes on
VetoedAreSkipped ==
  \A r \in run.vetoed :
    /\ r \notin Range(run.saved)
    /\ \A k \in DOMAIN run.after : run.after[k].rva # r
    /\ run.raised_at # Some(r)

\* the aggregates hold the saved records and nothing else
OnlySavedCounted ==
  InLoop =>
    LET counted == ResumedRows \o NewRows IN
      /\ callgraph_primes = PrimesProduct(counted, Len(counted))
      /\ callgraph_all_primes = PrimesHistogram(counted, Len(counted))

\* every exported function went through the after hook once, and its row is
\* the hook's result
SavedIsHookResult ==
  InLoop =>
    /\ Len(run.after) = Len(run.saved)
    /\ Len(NewRows) = Len(run.saved)
    /\ \A k \in DOMAIN run.saved :
         /\ run.after[k].rva = run.saved[k]
         /\ NewRows[k] = save_function(run.after[k])

\* C22: a function for which before_export_function returns a false value is
\* skipped (no record, nothing added to the prime product or the histogram,
\* no after_export_function call, the loop goes on); an exported function's
\* record goes through after_export_function once and is saved as returned.
C22_HookPolicy ==
  /\ VetoedAreSkipped
  /\ OnlySavedCounted
  /\ SavedIsHookResult

\* the before hook returned a false value for a function of the list and an
\* edited record was saved
C22_Witness ==
  /\ run.vetoed # {}
  /\ \E k \in DOMAIN run.after : run.after[k].prime = Primes[Len(Primes)]

(***************************************************************************)
(* _diff_or_export: the answers that discard the earlier output.           *)
(***************************************************************************)
\* the invocation in progress (or the last one) declined to resume a crashed
\* session, or confirmed overwriting the output
Discarded == run.answer \in {"decline", "overwrite"}

\* C23: after declining to resume (or confirming to overwrite) the sentinel
\* is removed and no function record of the earlier run is left, whether the
\* file was deleted or its tables dropped; the export that follows is not a
\* resumed one and reads every function of the list from the first.
C23_DeclineStartsOver ==
  Discarded =>
    /\ pc = "export" => ~crash_file /\ ViewFunctions = <<>>
    /\ pc = "do_export" => ~crashed_before /\ ViewFunctions = <<>>
    /\ pc \in ExportPcs \ {"export", "do_export"} =>
         /\ ~run.resume
         /\ run.prior = <<>>
         /\ ~crashed_before
    /\ pc = "loop" /\ i >= 1 => run.first_read
    /\ pc = "save_callgraph" =>
         Range(run.saved) = {FuncEA(p) - get_base_address : p \in ExportablePos}

\* resuming was declined on an output whose file could not be deleted (what
\* drop table leaves is still there), and the export that followed reached
\* the end of the list with records saved
C23_Witness ==
  /\ run.answer = "decline"
  /\ "analyze" \in meta
  /\ pc = "save_callgraph"
  /\ run.saved # <<>>

(***************************************************************************)
(* load_results, on its own: a results file (its config, results and       *)
(* unmatched tables), the files that exist, and what the analyst answers   *)
(* when asked for a path.                                                  *)
(***************************************************************************)
MaxRows == 2

\* diaphora.VERSION_VALUE and an older one
CurrentVersion == "current"
Versions == {CurrentVersion, "older"}

\* int(text, 16) on the addresses the results file stores
HexDigits == <<"0", "1", "2", "3", "4", "5", "6", "7", "8", "9",
               "a", "b", "c", "d", "e", "f">>

HexValue(c) == (CHOOSE d \in DOMAIN HexDigits : HexDigits[d] = c) - 1

RECURSIVE int16(_)
int16(text) ==
  IF Len(text) = 0 THEN 0
  ELSE 16 * int16(SubSeq(text, 1, Len(text) - 1)) + HexValue(text[Len(text)])

HexAddresses == {<<"1", "0">>, <<"a">>}

MatchTypes == {"best", "partial", "unreliable", "multimatch"}
UnmatchedTypes == {"primary", "secondary"}

\* diaphora.CChooser.Item of a row of results / of unmatched
MatchItem(row) == [ea1 |-> int16(row.address), ea2 |-> int16(row.address2)]
UnmatchedItem(row) == [ea1 |-> int16(row.address)]

NoChoosers ==
  [best_chooser |-> <<>>, partial_chooser |-> <<>>,
   unreliable_chooser |-> <<>>, unmatched_primary |-> <<>>,
   unmatched_second |-> <<>>]

\* the loop over "select * from results", from row k on
RECURSIVE LoadMatches(_, _, _)
LoadMatches(rows, k, ch) ==
  IF k > Len(rows) THEN ch
  ELSE LET row == rows[k]
           item == MatchItem(row)
       IN  LoadMatches(rows, k + 1,
             IF row.type = "best"
               THEN [ch EXCEPT !.best_chooser = Append(@, item)]
             ELSE IF row.type = "partial"
               THEN [ch EXCEPT !.partial_chooser = Append(@, item)]
             ELSE [ch EXCEPT !.unreliable_chooser = Append(@, item)])

\* the loop over "select * from unmatched", from row k on
RECURSIVE LoadUnmatched(_, _, _)
LoadUnmatched(rows, k, ch) ==
  IF k > Len(rows) THEN ch
  ELSE LET row == rows[k]
           item == UnmatchedItem(row)
       IN  LoadUnmatched(rows, k + 1,
             IF row.type = "primary"
               THEN [ch EXCEPT !.unmatched_primary = Append(@, item)]
             ELSE [ch EXCEPT !.unmatched_second = Append(@, item)])

\* a different load_results: a results file of another version is refused
load_results_same_version_only(inp) ==
  LET refused == \/ Len(inp.config) # 1
                 \/ inp.config[1].version # CurrentVersion
                 \/ ~inp.config[1].main_exists /\ inp.ask_main = None
                 \/ ~inp.config[1].diff_exists /\ inp.ask_diff = None
  IN  IF refused
        THEN [done |-> TRUE, ret |-> FALSE, warned |-> Len(inp.config) # 1,
              reinit |-> FALSE, shown |-> FALSE, choosers |-> NoChoosers]
        ELSE [done |-> TRUE, ret |-> TRUE, warned |-> FALSE, reinit |-> TRUE,
              shown |-> TRUE,
              choosers |-> LoadUnmatched(inp.unmatched, 1,
                             LoadMatches(inp.results, 1, NoChoosers))]

\* load_results: ret is what it returns, warned that a Warning was shown,
\* reinit that self.reinit ran (the choosers are created anew by it), shown
\* that show_choosers was called
load_results(inp) ==
  LET stop == [done |-> TRUE, ret |-> FALSE, warned |-> FALSE,
               reinit |-> FALSE, shown |-> FALSE, choosers |-> NoChoosers]
  IN  IF Len(inp.config) # 1
        THEN [stop EXCEPT !.warned = TRUE]
      ELSE
        LET row == inp.config[1]
            warned == row.version # CurrentVersion
        IN  IF ~row.main_exists /\ inp.ask_main = None
              THEN [stop EXCEPT !.warned = warned]
            ELSE IF ~row.diff_exists /\ inp.ask_diff = None
              THEN [stop EXCEPT !.warned = warned]
            ELSE [done |-> TRUE, ret |-> TRUE, warned |-> warned,
                  reinit |-> TRUE, shown |-> TRUE,
                  choosers |-> LoadUnmatched(inp.unmatched, 1,
                                 LoadMatches(inp.results, 1, NoChoosers))]

ConfigRows == [version : Versions, main_exists : BOOLEAN, diff_exists : BOOLEAN]
ResultRows == [type : MatchTypes, address : HexAddresses, address2 : {<<"f", "f">>}]
UnmatchedRows == [type : UnmatchedTypes, address : HexAddresses]

InitLoad ==
  /\ ExporterIdle
  /\ IdbQuiet
  /\ LevelQuiet
  /\ ReadQuiet
  /\ fn_out = NotCalled
  /\ \E config \in SeqsUpTo(ConfigRows, MaxRows),
        results \in SeqsUpTo(ResultRows, MaxRows),
        unmatched \in SeqsUpTo(UnmatchedRows, MaxRows - 1),
        ask_main \in {None, Some("main")}, ask_diff \in {None, Some("diff")} :
       /\ Len(config) = 2 => config[2] = config[1]
       /\ (Len(config) = 1 /\ config[1].main_exists) => ask_main = None
       /\ (Len(config) = 1 /\ config[1].diff_exists) => ask_diff = None
       /\ Len(config) # 1 => ask_main = None /\ ask_diff = None
       /\ fn_in = [done |-> TRUE, fn |-> "load_results", config |-> config,
                   results |-> results, unmatched |-> unmatched,
                   ask_main |-> ask_main, ask_diff |-> ask_diff]

LoadResults ==
  /\ fn_in.done
  /\ fn_in.fn = "load_results"
  /\ ~fn_out.done
  /\ fn_out' = load_results(fn_in)
  /\ UNCHANGED <<exporter, idb, level_in, level_out, read_in, read_out, fn_in>>

NextLoad == LoadResults

SpecLoad == InitLoad /\ [][NextLoad]_vars

\* the rows of one kind, as chooser items, in the order of the table
RowsOf(rows, kinds_of) == SelectSeq(rows, LAMBDA row : row.type \in kinds_of)

MatchItemsOf(rows, kinds_of) ==
  [k \in DOMAIN RowsOf(rows, kinds_of) |-> MatchItem(RowsOf(rows, kinds_of)[k])]

UnmatchedItemsOf(rows, kinds_of) ==
  [k \in DOMAIN RowsOf(rows, kinds_of) |-> UnmatchedItem(RowsOf(rows, kinds_of)[k])]

\* the only reasons to return False
NotLoadable ==
  \/ Len(fn_in.config) # 1
  \/ ~fn_in.config[1].main_exists /\ fn_in.ask_main = None
  \/ ~fn_in.config[1].diff_exists /\ fn_in.ask_diff = None

\* C24: whatever the stored version (another one only warns), load_results
\* returns True with every match row in the chooser of its kind and every
\* unmatched row in the primary or secondary list; it returns False, with no
\* row loaded, only for a config table without exactly one row or a missing
\* database whose path is not supplied.
C24_VersionOnlyWarns ==
  fn_out.done =>
    /\ fn_out.ret = ~NotLoadable
    /\ NotLoadable => fn_out.choosers = NoChoosers
    /\ ~NotLoadable =>
         /\ fn_out.warned = (fn_in.config[1].version # CurrentVersion)
         /\ fn_out.choosers.best_chooser =
              MatchItemsOf(fn_in.results, {"best"})
         /\ fn_out.choosers.partial_chooser =
              MatchItemsOf(fn_in.results, {"partial"})
         /\ fn_out.choosers.unreliable_chooser =
              MatchItemsOf(fn_in.results, MatchTypes \ {"best", "partial"})
         /\ fn_out.choosers.unmatched_primary =
              UnmatchedItemsOf(fn_in.unmatched, {"primary"})
         /\ fn_out.choosers.unmatched_second =
              UnmatchedItemsOf(fn_in.unmatched, {"secondary"})

\* a results file of an older version was loaded, with rows in it
C24_Witness ==
  /\ fn_out.done
  /\ fn_out.ret
  /\ fn_out.warned
  /\ Len(fn_in.results) = MaxRows
  /\ fn_in.unmatched # <<>>

(***************************************************************************)
(* constant_filter and the operand loop of read_function, on their own.    *)
(* An operand value is a 64-bit number, held as four 16-bit words, the     *)
(* most significant first.                                                 *)
(***************************************************************************)
WordBits == 16
WordCount == 4

RECURSIVE Pow2(_)
Pow2(n) == IF n = 0 THEN 1 ELSE 2 * Pow2(n - 1)

\* a & b on words
RECURSIVE WordAnd(_, _, _)
WordAnd(a, b, n) ==
  IF n = 0 THEN 0
  ELSE 2 * WordAnd(a \div 2, b \div 2, n - 1) + (a % 2) * (b % 2)

\* value & mask
BitAnd(value, mask) ==
  [k \in 1..WordCount |-> WordAnd(value[k], mask[k], WordBits)]

\* a < b, from the most significant word on
RECURSIVE LessFrom(_, _, _)
LessFrom(a, b, k) ==
  IF k > WordCount THEN FALSE
  ELSE IF a[k] # b[k] THEN a[k] < b[k]
  ELSE LessFrom(a, b, k + 1)

Less(a, b) == LessFrom(a, b, 1)

\* 1 << n
ShiftedOne(n) ==
  [k \in 1..WordCount |->
     IF WordCount - k = n \div WordBits THEN Pow2(n % WordBits) ELSE 0]

\* 0x10000, and the four masks in the order of the test
SmallLimit == <<0, 0, 1, 0>>
FilterMasks == <<<<0, 0, 65535, 65280>>, <<0, 0, 255, 65280>>,
                 <<65535, 65535, 65535, 65280>>, <<255, 65535, 65535, 65280>>>>

\* a different constant_filter: no test for single bits
constant_filter_without_bit_test(value) ==
  /\ ~Less(value, SmallLimit)
  /\ \A m \in DOMAIN FilterMasks : BitAnd(value, FilterMasks[m]) # FilterMasks[m]

\* constant_filter
constant_filter(value) ==
  IF Less(value, SmallLimit) THEN FALSE
  ELSE IF \E m \in DOMAIN FilterMasks :
            BitAnd(value, FilterMasks[m]) = FilterMasks[m] THEN FALSE
  ELSE IF \E n \in 0..63 : value = ShiftedOne(n) THEN FALSE
  ELSE TRUE

\* is_constant: the value is not among DataRefsFrom(ea)
is_constant(value, drefs) == value \notin drefs

\* read_function, the operand loop of one instruction: what is appended to
\* constants for the operands from k on
RECURSIVE OperandLoop(_, _, _, _)
OperandLoop(Operands, drefs, k, constants) ==
  IF k > Len(Operands) THEN constants
  ELSE LET oper == Operands[k] IN
         OperandLoop(Operands, drefs, k + 1,
           IF /\ oper.type = "o_imm"
              /\ is_constant(oper.value, drefs)
              /\ constant_filter(oper.value)
             THEN Append(constants, oper.value)
             ELSE constants)

\* the words the operand values of the model are made of
Words == {0, 1, 4660, 22136, 32768, 65280, 65535}
Values == [1..WordCount -> Words]

\* 0x20 and 0x12345678
Hex20 == <<0, 0, 0, 32>>
Hex12345678 == <<0, 0, 4660, 22136>>

\* one instruction with one operand, and its data references: none, the
\* operand's value, another address
InitConstants ==
  /\ ExporterIdle
  /\ IdbQuiet
  /\ LevelQuiet
  /\ ReadQuiet
  /\ fn_out = NotCalled
  /\ \E value \in Values, type \in {"o_imm", "o_reg"} :
       \E drefs \in {{}, {value}, {Hex12345678}} :
         fn_in = [done |-> TRUE, fn |-> "constants",
                  Operands |-> <<[type |-> type, value |-> value]>>,
                  drefs |-> drefs]

Constants ==
  /\ fn_in.done
  /\ fn_in.fn = "constants"
  /\ ~fn_out.done
  /\ fn_out' = [done |-> TRUE,
                constants |-> OperandLoop(fn_in.Operands, fn_in.drefs, 1, <<>>)]
  /\ UNCHANGED <<exporter, idb, level_in, level_out, read_in, read_out, fn_in>>

NextConstants == Constants

SpecConstants == InitConstants /\ [][NextConstants]_vars

\* the positions of the bits set in a value, bit 0 the least significant
BitsOf(value) ==
  {n \in 0..(WordCount * WordBits - 1) :
     (value[WordCount - (n \div WordBits)] \div Pow2(n % WordBits)) % 2 = 1}

\* what the claim lets through
Accepted(value) ==
  LET bits == BitsOf(value) IN
    /\ \E n \in bits : n >= 16
    /\ ~(8..31 \subseteq bits)
    /\ ~(8..23 \subseteq bits)
    /\ ~(8..63 \subseteq bits)
    /\ ~(8..55 \subseteq bits)
    /\ Cardinality(bits) # 1

\* C25: the immediate of an instruction is appended to constants only if it
\* is not one of the instruction's data references and constant_filter
\* accepts it, and constant_filter accepts exactly the values that are at
\* least 0x10000, have none of the four masks fully set and are not a single
\* bit; 0x20 is rejected and 0x12345678 accepted.
C25_ConstantFilter ==
  /\ ~constant_filter(Hex20)
  /\ constant_filter(Hex12345678)
  /\ fn_out.done =>
       LET oper == fn_in.Operands[1]
           accepted == Accepted(oper.value)
       IN  /\ constant_filter(oper.value) = accepted
           /\ fn_out.constants =
                IF /\ oper.type = "o_imm"
                   /\ oper.value \notin fn_in.drefs
                   /\ accepted
                  THEN <<oper.value>> ELSE <<>>

\* an immediate that is a single bit above 0x10000 and not a data reference
\* went through the loop
C25_Witness ==
  /\ fn_out.done
  /\ fn_in.Operands[1].type = "o_imm"
  /\ fn_in.Operands[1].value = <<0, 1, 0, 0>>
  /\ fn_in.drefs = {}

(***************************************************************************)
(* The aggregates handed to save_callgraph.                                *)
(***************************************************************************)
\* the sum of the counts of a histogram
RECURSIVE CountSum(_)
CountSum(h) ==
  IF DOMAIN h = {} THEN 0
  ELSE LET p == CHOOSE q \in DOMAIN h : TRUE IN
         h[p] + CountSum([q \in DOMAIN h \ {p} |-> h[q]])

\* C26: when do_export calls save_callgraph, the counts of the histogram sum
\* to the number of rows of the functions table and the running product is
\* the product of the primes_value of those rows, in a run from the start
\* and in a resumed one.
C26_AggregatesMatchTable ==
  pc = "save_callgraph" =>
    /\ CountSum(callgraph_all_primes) = Len(ViewFunctions)
    /\ callgraph_primes = PrimesProduct(ViewFunctions, Len(ViewFunctions))

\* a resumed run that found committed records and added its own reached
\* save_callgraph
C26_Witness ==
  /\ pc = "save_callgraph"
  /\ run.resume
  /\ run.prior # <<>>
  /\ run.saved # <<>>

(***************************************************************************)
(* The commits of do_export.                                               *)
(***************************************************************************)
\* total_funcs / 10
CommitEvery == total_funcs \div CommitParts

\* C27: do_export commits before the first function, and for a list of more
\* than 5000 functions at every loop index that is a multiple of
\* total_funcs / 10, whatever happens to the function at that index; so the
\* uncommitted records never span more than total_funcs / 10 positions.
C27_CommitAtEveryTenth ==
  pc = "loop" =>
    /\ i = 0 => tx_functions = <<>> /\ tx_program = {} /\ tx_meta = {}
    /\ total_funcs > CommitThreshold =>
         /\ run.committed_at = (i \div CommitEvery) * CommitEvery
         /\ tx_functions # <<>> => i - run.committed_at < CommitEvery

\* the loop passed a commit index and committed there
C27_Witness ==
  /\ pc = "loop"
  /\ total_funcs > CommitThreshold
  /\ run.committed_at = CommitEvery
  /\ functions # <<>>

(***************************************************************************)
(* The loops field (checked under SpecRead).                               *)
(***************************************************************************)
\* the SCCs of the adjacency map of the record, as sets of blocks
SccsOfRecord ==
  {Component(read_out.bb_relations, a) : a \in DOMAIN read_out.bb_relations}

\* those that are a loop: more than one block, or one block that is its own
\* successor
LoopSccs ==
  {C \in SccsOfRecord :
     \/ Cardinality(C) > 1
     \/ \E a \in C : a \in Range(read_out.bb_relations[a])}

\* the sentence as it stands: loops is the number of the SCCs of the
\* adjacency map that have more than one block or a block with a self-edge
C28_LoopsAlways == Returned => read_out.loops = Cardinality(LoopSccs)

\* C28: when the SCC step did not fail, loops is the number of the SCCs of
\* the adjacency map with more than one block plus the number of the
\* single-block SCCs whose block is its own successor; a single block without
\* a self-edge does not count.
C28_LoopsCountCycles ==
  (Returned /\ ~read_out.scc_failed) => read_out.loops = Cardinality(LoopSccs)

\* a record with a self-loop block, and a block without a self-edge that has
\* edges
C28_Witness ==
  /\ Returned
  /\ ~read_out.scc_failed
  /\ read_out.loops = 1
  /\ \E C \in LoopSccs : Cardinality(C) = 1
  /\ \E C \in SccsOfRecord \ LoopSccs :
       \E a \in C : read_out.bb_relations[a] # <<>>

(***************************************************************************)
(* export() finds the sentinel, do_export finds no record.                 *)
(***************************************************************************)
\* do_export was entered with crashed_before set over an empty functions
\* table
ResumedOverNothing == run.resume /\ run.prior = <<>>

\* the rows a fresh export saves, in the order of the function list
FreshRows ==
  LET pos == Ascending(ExportablePos)
  IN  [k \in DOMAIN pos |-> save_function(read_function(FuncEA(pos[k])))]

\* C29: entered with the sentinel present and no record in the functions
\* table, do_export leaves resume mode and reads every function of the list
\* from the first; what it hands to save_callgraph is what a fresh export
\* does.
C29_EmptyTableRestarts ==
  (ResumedOverNothing /\ pc \in RunningDoExport) =>
    /\ ~crashed_before
    /\ start_func = None
    /\ (pc = "loop" /\ i >= 1) => run.first_read
    /\ pc = "save_callgraph" =>
         /\ ViewFunctions = FreshRows
         /\ callgraph_primes = PrimesProduct(FreshRows, Len(FreshRows))
         /\ callgraph_all_primes = PrimesHistogram(FreshRows, Len(FreshRows))

\* such a run reached the end of the list with every exportable function
\* saved
C29_Witness ==
  /\ ResumedOverNothing
  /\ pc = "save_callgraph"
  /\ Len(run.saved) = SmallTotal

(***************************************************************************)
(* What _diff_or_export does to an existing output before it exports.      *)
(***************************************************************************)
\* a step of _diff_or_export from its entry to the construction of
\* CIDABinDiff, on an existing output
AnsweredStep == pc = "idle" /\ db_exists /\ opts'.entry = "doe" /\ pc' # "warning"

OutputTouched ==
  \/ functions' # functions
  \/ program' # program
  \/ meta' # meta
  \/ crash_file' # crash_file

\* C30: _diff_or_export deletes or empties an existing output only on the
\* answer No to the resume question (sentinel present) or Yes to the
\* overwrite question (no sentinel); Cancel changes neither the database nor
\* the sentinel; No to the overwrite question changes nothing, creates no
\* sentinel and runs no export; Yes to the resume question deletes nothing.
C30_DeletedOnlyOnAnswer ==
  /\ [][AnsweredStep =>
          /\ OutputTouched =>
               \/ crash_file /\ run'.answer = "decline"
               \/ ~crash_file /\ run'.answer = "overwrite"
          /\ run'.answer \in {"keep", "resume"} => ~OutputTouched
          /\ run'.answer = "keep" => pc' = "after_export"]_vars
  /\ [](run.answer = "keep" =>
          /\ pc \in {"idle", "warning", "after_export"}
          /\ run.sentinel = "no"
          /\ ~crash_file)

\* the overwrite question was answered No on an output that holds records
C30_Witness ==
  /\ run.answer = "keep"
  /\ pc = "after_export"
  /\ functions # <<>>

====
